---------------------------- MODULE Spec2Model ----------------------------
(***************************************************************************)
(* Model of the blog generator.  The generation-and-repair loop            *)
(* (src/app/core/blog_generator.py): the retrying provider call            *)
(* _call_gemini, the cascading recovery parser parse_json_response, the    *)
(* repair request _reformat_to_json and the orchestrating generate.  The   *)
(* content extractor (content_extractor.py), the image fetcher             *)
(* (image_fetcher.py), and the handler generate_blog (main.py) with the    *)
(* request model, the URL validator, the text cleaner, the keyword and     *)
(* topic analysis, the prompt builder, scoring and the response model.     *)
(*                                                                         *)
(* Texts are sequences of characters; a character is a one-element TLA+    *)
(* string, or a name for a character TLA+ cannot spell ("LDQ", "RDQ",      *)
(* "LSQ", "RSQ" for the typographic quotes U+201C, U+201D, U+2018, U+2019, *)
(* "DEL" for \x7f, "SOH" for \x01, "BT" for the backtick).                 *)
(***************************************************************************)
EXTENDS Integers, Sequences, FiniteSets, TLC

VARIABLES
    pc,          \* position of the generate call
    stage,       \* "initial" or "repair": which invocation is under way
    prompt,      \* prompt of the invocation under way
    attempt,     \* tenacity's attempt_number within the invocation under way
    invocations, \* logical provider invocations (_call_gemini calls) so far
    physical,    \* physical provider attempts (generate_content calls) so far
    sent,        \* the prompts handed to generate_content, in order
    failures,    \* the failures of the attempts of the invocation under way
    delays,      \* the delays slept between attempts, one sequence per invocation
    response,    \* text returned by the initial invocation
    repaired,    \* text returned by the repair invocation
    parses,      \* calls of parse_json_response so far
    outcome,     \* what generate returned or raised
    ppc,         \* position of the stand-alone parse_json_response call
    pcase,       \* how its argument was built: the shape and the payload
    pin,         \* its argument
    pout,        \* its outcome
    epc,         \* position of the ContentExtractor.extract call
    page,        \* what its url leads to: the article library's result, the
                 \* fetch and the markup
    max_length,  \* ContentExtractor.max_length
    content,     \* the local variable content of extract
    tried,       \* the strategies extract has run, with what each returned
    eout,        \* what extract returned or raised
    ipc,         \* position of the stand-alone call of the image fetcher
    unsplash_access_key, \* settings.unsplash_access_key
    icall,       \* the function called, with its arguments
    isent,       \* the requests sent to the image service
    iout,        \* what the call returned
    rpc,         \* position of the generate_blog handler
    body,        \* the body of the request as received
    request,     \* the BlogGenerationRequest made of it
    run,         \* the local variables of the handler, and the warnings of
                 \* the image stage
    trace,       \* the stages entered, in order
    answer,      \* the response, or the error answered
    vpc,         \* position of the stand-alone URLValidator.validate call
    vurl,        \* its argument
    vprobe,      \* what the HEAD request to the url meets
    vout,        \* what the call returned
    runs         \* the local variables of each of two concurrent requests

vars == <<pc, stage, prompt, attempt, invocations, physical, sent, failures,
          delays, response, repaired, parses, outcome, ppc, pcase, pin, pout,
          epc, page, max_length, content, tried, eout,
          ipc, unsplash_access_key, icall, isent, iout,
          rpc, body, request, run, trace, answer,
          vpc, vurl, vprobe, vout, runs>>

genVars == <<pc, stage, prompt, attempt, invocations, physical, sent, failures,
             delays, response, repaired, parses, outcome>>

parseVars == <<ppc, pcase, pin, pout>>

extractVars == <<epc, page, max_length, content, tried, eout>>

imageVars == <<ipc, unsplash_access_key, icall, isent, iout>>

runVars == <<rpc, body, request, run, trace, answer>>

validateVars == <<vpc, vurl, vprobe, vout>>

pairVars == <<runs>>

\* what the steps of one operation leave alone: the state of the others
besidesGen == <<parseVars, extractVars, imageVars, runVars, validateVars, pairVars>>

besidesParse == <<genVars, extractVars, imageVars, runVars, validateVars, pairVars>>

besidesExtract == <<genVars, parseVars, imageVars, runVars, validateVars, pairVars>>

besidesImage == <<genVars, parseVars, extractVars, runVars, validateVars, pairVars>>

besidesRun == <<genVars, parseVars, extractVars, imageVars, validateVars, pairVars>>

besidesValidate == <<genVars, parseVars, extractVars, imageVars, runVars, pairVars>>

besidesPair == <<genVars, parseVars, extractVars, imageVars, runVars, validateVars>>

----------------------------------------------------------------------------
(* Characters *)

Fence == <<"BT", "BT", "BT">>

JsonFence == <<"BT", "BT", "BT", "j", "s", "o", "n">>

\* the characters the json scanner skips between tokens
JsonWhitespace == {" ", "\t", "\n", "\r"}

\* the characters str.strip() and the regex class \s remove
PyWhitespace == {" ", "\t", "\n", "\r", "\f"}

\* the characters of the class [\x00-\x1f\x7f]
ControlChars == {"\t", "\n", "\r", "\f", "SOH", "DEL"}

\* the characters below \x20, which a strict JSON string may not hold
StringForbidden == {"\t", "\n", "\r", "\f", "SOH"}

Digits == {"0", "1", "2", "3", "4", "5", "6", "7", "8", "9"}

Min(a, b) == IF a <= b THEN a ELSE b

Max(a, b) == IF a >= b THEN a ELSE b

----------------------------------------------------------------------------
(* String operations of Python used by the parser *)

\* s[i:j] with 1-based inclusive positions
Slice(s, i, j) == IF j < i THEN <<>> ELSE SubSeq(s, i, j)

\* s[:n]
Prefix(s, n) == Slice(s, 1, Min(n, Len(s)))

\* does sub occur in s at position i
OccursAt(sub, s, i) ==
    /\ i >= 1
    /\ i + Len(sub) - 1 <= Len(s)
    /\ \A k \in 1..Len(sub) : s[i + k - 1] = sub[k]

\* s.find(sub): the first position of sub in s, 0 when there is none
Find(sub, s) ==
    LET hits == {i \in 1..Len(s) : OccursAt(sub, s, i)}
    IN  IF hits = {} THEN 0 ELSE CHOOSE i \in hits : \A j \in hits : i <= j

\* sub in s
Contains(sub, s) == Find(sub, s) # 0

\* s.split(sep, 1)[1]: the text after the first occurrence of sep
AfterFirst(sep, s) == Slice(s, Find(sep, s) + Len(sep), Len(s))

\* s.split(sep, 1)[0]: the text before the first occurrence of sep, s when none
BeforeFirst(sep, s) ==
    IF Contains(sep, s) THEN Slice(s, 1, Find(sep, s) - 1) ELSE s

\* s.strip()
Strip(s) ==
    LET keep == {i \in 1..Len(s) : s[i] \notin PyWhitespace}
    IN  IF keep = {} THEN <<>>
        ELSE Slice(s, CHOOSE i \in keep : \A j \in keep : i <= j,
                      CHOOSE i \in keep : \A j \in keep : i >= j)

\* s.find(c) for one character
FindChar(c, s) == Find(<<c>>, s)

\* s.rfind(c) for one character, 0 when there is none
RFindChar(c, s) ==
    LET hits == {i \in 1..Len(s) : s[i] = c}
    IN  IF hits = {} THEN 0 ELSE CHOOSE i \in hits : \A j \in hits : i >= j

\* s.count(c) for one character
Count(c, s) == Cardinality({i \in 1..Len(s) : s[i] = c})

\* s.replace(c, d) for one character
Replace(c, d, s) == [k \in DOMAIN s |-> IF s[k] = c THEN d ELSE s[k]]

\* re.sub(r"[\x00-\x1f\x7f]", '', s)
StripControl(s) == SelectSeq(s, LAMBDA c : c \notin ControlChars)

\* the position just after the run of \s characters that starts at i
RECURSIVE SkipSpace(_, _)
SkipSpace(s, i) ==
    IF i <= Len(s) /\ s[i] \in PyWhitespace THEN SkipSpace(s, i + 1) ELSE i

\* the positions a match of ,\s*([}\]]) loses: a comma and the \s characters
\* after it, when a closing brace or bracket follows them
TrailingCommas(s) ==
    {k \in 1..Len(s) :
        /\ \E i \in 1..k : s[i] = "," /\ \A m \in (i + 1)..k : s[m] \in PyWhitespace
        /\ SkipSpace(s, k + 1) <= Len(s)
        /\ s[SkipSpace(s, k + 1)] \in {"}", "]"}}

\* s without the characters at the positions in drop
Without(s, drop) ==
    LET keep == (1..Len(s)) \ drop
    IN  [n \in 1..Cardinality(keep) |->
            s[CHOOSE k \in keep : Cardinality({j \in keep : j <= k}) = n]]

\* re.sub(r",\s*([}\]])", r"\1", s)
DropTrailingCommas(s) == Without(s, TrailingCommas(s))

----------------------------------------------------------------------------
(* json.loads: the strict parse.  A parsed value is a record with the kind *)
(* of value, its text (strings, numbers) and its parts (arrays, objects);  *)
(* Python's None, which is both the value of the JSON literal null and     *)
(* what try_loads returns for a text that does not parse, is NoneVal.      *)

NoneVal == [t |-> "None", s |-> <<>>, items |-> <<>>]

JString(str) == [t |-> "string", s |-> str, items |-> <<>>]

JNumber(str) == [t |-> "number", s |-> str, items |-> <<>>]

JBool(b) == [t |-> b, s |-> <<>>, items |-> <<>>]

JArray(elems) == [t |-> "array", s |-> <<>>, items |-> elems]

JPair(key, val) == [t |-> "pair", s |-> key, items |-> <<val>>]

JObject(pairs) == [t |-> "object", s |-> <<>>, items |-> pairs]

\* the outcome of scanning one value: ok, the value, the position after it
Scanned(val, next) == [ok |-> TRUE, v |-> val, i |-> next]

ScanFail == [ok |-> FALSE, v |-> NoneVal, i |-> 0]

At(s, i) == IF i >= 1 /\ i <= Len(s) THEN s[i] ELSE "EOF"

\* the position after the run of JSON whitespace that starts at i
RECURSIVE SkipJsonWs(_, _)
SkipJsonWs(s, i) ==
    IF At(s, i) \in JsonWhitespace THEN SkipJsonWs(s, i + 1) ELSE i

\* the position after the run of digits that starts at i
RECURSIVE DigitsEnd(_, _)
DigitsEnd(s, i) == IF At(s, i) \in Digits THEN DigitsEnd(s, i + 1) ELSE i

\* the character a backslash escape stands for ("BS" is \x08)
Unescape(c) ==
    CASE c = "b" -> "BS"
      [] c = "f" -> "\f"
      [] c = "n" -> "\n"
      [] c = "r" -> "\r"
      [] c = "t" -> "\t"
      [] OTHER -> c

\* the string literal whose opening quote precedes position i
\* (\u escapes are not in the alphabet of the model)
RECURSIVE ScanString(_, _, _)
ScanString(s, i, acc) ==
    LET c == At(s, i)
    IN  CASE c = "EOF" -> ScanFail
          [] c = "\"" -> Scanned(JString(acc), i + 1)
          [] c = "\\" ->
                IF At(s, i + 1) \in {"\"", "\\", "/", "b", "f", "n", "r", "t"}
                THEN ScanString(s, i + 2, Append(acc, Unescape(At(s, i + 1))))
                ELSE ScanFail
          [] c \in StringForbidden -> ScanFail
          [] OTHER -> ScanString(s, i + 1, Append(acc, c))

\* the number that starts at i: -?(0|[1-9]\d*)(\.\d+)?([eE][-+]?\d+)?
ScanNumber(s, i) ==
    LET j == IF At(s, i) = "-" THEN i + 1 ELSE i
        k == IF At(s, j) = "0" THEN j + 1 ELSE DigitsEnd(s, j)
        f == IF At(s, k) = "." /\ At(s, k + 1) \in Digits
             THEN DigitsEnd(s, k + 1) ELSE k
        x == IF At(s, f + 1) \in {"+", "-"} THEN f + 2 ELSE f + 1
        e == IF At(s, f) \in {"e", "E"} /\ At(s, x) \in Digits
             THEN DigitsEnd(s, x) ELSE f
    IN  IF At(s, j) \in Digits THEN Scanned(JNumber(Slice(s, i, e - 1)), e)
        ELSE ScanFail

\* dict(pairs): a repeated key keeps its first place and takes the last value
SetKey(pairs, key, val) ==
    IF \E n \in 1..Len(pairs) : pairs[n].s = key
    THEN LET n == CHOOSE n \in 1..Len(pairs) : pairs[n].s = key
         IN  SubSeq(pairs, 1, n - 1) \o <<JPair(key, val)>>
                \o SubSeq(pairs, n + 1, Len(pairs))
    ELSE Append(pairs, JPair(key, val))

RECURSIVE ScanValue(_, _)
RECURSIVE ScanMembers(_, _, _)
RECURSIVE ScanElements(_, _, _)

\* the members of an object, the opening quote of the next key being at i
ScanMembers(s, i, acc) ==
    LET key   == ScanString(s, i + 1, <<>>)
        colon == SkipJsonWs(s, key.i)
        val   == ScanValue(s, SkipJsonWs(s, colon + 1))
        after == SkipJsonWs(s, val.i)
        next  == SkipJsonWs(s, after + 1)
    IN  IF ~key.ok \/ At(s, colon) # ":" THEN ScanFail
        ELSE IF ~val.ok THEN ScanFail
        ELSE IF At(s, after) = "}"
             THEN Scanned(JObject(SetKey(acc, key.v.s, val.v)), after + 1)
        ELSE IF At(s, after) = "," /\ At(s, next) = "\""
             THEN ScanMembers(s, next, SetKey(acc, key.v.s, val.v))
        ELSE ScanFail

\* the elements of an array, the next element starting at i
ScanElements(s, i, acc) ==
    LET val   == ScanValue(s, i)
        after == SkipJsonWs(s, val.i)
    IN  IF ~val.ok THEN ScanFail
        ELSE IF At(s, after) = "]"
             THEN Scanned(JArray(Append(acc, val.v)), after + 1)
        ELSE IF At(s, after) = ","
             THEN ScanElements(s, SkipJsonWs(s, after + 1), Append(acc, val.v))
        ELSE ScanFail

\* the value that starts at i
ScanValue(s, i) ==
    LET c == At(s, i)
        j == SkipJsonWs(s, i + 1)
    IN  CASE c = "\"" -> ScanString(s, i + 1, <<>>)
          [] c = "{" ->
                IF At(s, j) = "}" THEN Scanned(JObject(<<>>), j + 1)
                ELSE IF At(s, j) = "\"" THEN ScanMembers(s, j, <<>>)
                ELSE ScanFail
          [] c = "[" ->
                IF At(s, j) = "]" THEN Scanned(JArray(<<>>), j + 1)
                ELSE ScanElements(s, j, <<>>)
          [] OccursAt(<<"n", "u", "l", "l">>, s, i) -> Scanned(NoneVal, i + 4)
          [] OccursAt(<<"t", "r", "u", "e">>, s, i) ->
                Scanned(JBool("true"), i + 4)
          [] OccursAt(<<"f", "a", "l", "s", "e">>, s, i) ->
                Scanned(JBool("false"), i + 5)
          [] OTHER -> ScanNumber(s, i)

\* json.loads(s): the value of the whole text, failing on extra data
Loads(s) ==
    LET r == ScanValue(s, SkipJsonWs(s, 1))
    IN  IF r.ok /\ SkipJsonWs(s, r.i) = Len(s) + 1
        THEN [ok |-> TRUE, v |-> r.v]
        ELSE [ok |-> FALSE, v |-> NoneVal]

\* mutant: the value of the literal null is told apart from a failure
try_loads_NullKept(text) ==
    IF Loads(text).ok /\ Loads(text).v = NoneVal
    THEN [t |-> "null", s |-> <<>>, items |-> <<>>]
    ELSE Loads(text).v

\* try_loads(text): json.loads(text), None when it raises
try_loads(text) == Loads(text).v

----------------------------------------------------------------------------
(* parse_json_response *)

\* the balanced-brace scan looks at most this many characters ahead
ScanWindow == 20000

\* the debug log shows at most this many characters
DebugChars == 2000

\* an exception: its type, its message or diagnostic text, and, for a
\* provider failure, the invocation and attempt that raised it
Error(type, text, call, att) ==
    [type |-> type, text |-> text, call |-> call, attempt |-> att]

NoError == Error("none", <<>>, 0, 0)

\* ValueError("LLM did not return valid JSON"); the message is one token
InvalidJsonError == Error("ValueError", <<"LLM did not return valid JSON">>, 0, 0)

\* lines 88-101: the interior of the first ```json block, else of the first
\* ``` block, else the text; then strip()
FenceStripped(resp) ==
    IF Contains(JsonFence, resp)
    THEN Strip(BeforeFirst(Fence, AfterFirst(JsonFence, resp)))
    ELSE IF Contains(Fence, resp)
    THEN Strip(BeforeFirst(Fence, AfterFirst(Fence, resp)))
    ELSE Strip(resp)

\* lines 103-106: the strict parse of the whole text
Strategy1(raw) == try_loads(raw)

\* lines 108-115: the strict parse of the text from the first { to the last }
Strategy2(raw) ==
    LET first_brace == FindChar("{", raw)
        last_brace  == RFindChar("}", raw)
    IN  IF first_brace # 0 /\ last_brace # 0 /\ last_brace > first_brace
        THEN try_loads(Slice(raw, first_brace, last_brace))
        ELSE NoneVal

\* lines 118-127: straight quotes, no control characters, no trailing commas
Normalized(raw) ==
    DropTrailingCommas(StripControl(
        Replace("RSQ", "'", Replace("LSQ", "'",
            Replace("RDQ", "\"", Replace("LDQ", "\"", raw))))))

\* lines 129-132
Strategy3(raw) == try_loads(Normalized(raw))

\* mutant: every candidate that ends with a closing brace is parsed
Candidates_Unbalanced(raw, first_brace) ==
    { [end |-> end, data |-> try_loads(Slice(raw, first_brace, end))] :
        end \in { e \in (first_brace + 1)..Min(Len(raw), first_brace - 1 + ScanWindow) :
                    raw[e] = "}" } }

\* lines 137-142: the balanced candidates of the window that starts at
\* first_brace, each with the position of its closing brace and its parse
Candidates(raw, first_brace) ==
    { [end |-> end, data |-> try_loads(Slice(raw, first_brace, end))] :
        end \in { e \in (first_brace + 1)..Min(Len(raw), first_brace - 1 + ScanWindow) :
                    /\ raw[e] = "}"
                    /\ Count("{", Slice(raw, first_brace, e))
                         = Count("}", Slice(raw, first_brace, e)) } }

\* lines 143-144: the parse of the first candidate that parses, else None
FirstParsed(candidates) ==
    IF \E c \in candidates : c.data # NoneVal
    THEN (CHOOSE c \in candidates :
             /\ c.data # NoneVal
             /\ \A d \in candidates : d.data # NoneVal => c.end <= d.end).data
    ELSE NoneVal

\* lines 136-144: the first balanced candidate from the first { that parses
Strategy4(raw) ==
    IF FindChar("{", raw) # 0
    THEN FirstParsed(Candidates(raw, FindChar("{", raw)))
    ELSE NoneVal

Returned(data, n) ==
    [ok |-> TRUE, v |-> data, strategy |-> n, error |-> NoError, logged |-> <<>>]

Raised(err, log) ==
    [ok |-> FALSE, v |-> NoneVal, strategy |-> 0, error |-> err, logged |-> log]

\* mutant: the scan reads the normalized text
Attempts_Chained(raw) ==
    <<Strategy1(raw), Strategy2(raw), Strategy3(raw), Strategy4(Normalized(raw))>>

\* lines 103-144: what each of the four attempts yields on the text raw
Attempts(raw) == <<Strategy1(raw), Strategy2(raw), Strategy3(raw), Strategy4(raw)>>

\* lines 105-106, 114-115, 131-132, 143-149: the first attempt that is not
\* None is returned; when there is none, ValueError is raised and the debug
\* line shows raw[:2000]
\* the number of the attempt that returns, 0 when none does
Winner(attempts) ==
    IF \E n \in 1..4 : attempts[n] # NoneVal
    THEN CHOOSE n \in 1..4 :
            /\ attempts[n] # NoneVal
            /\ \A m \in 1..(n - 1) : attempts[m] = NoneVal
    ELSE 0

Outcome(attempts, n, raw) ==
    IF n # 0 THEN Returned(attempts[n], n)
    ELSE Raised(InvalidJsonError, Prefix(raw, DebugChars))

ParseStripped(attempts, raw) == Outcome(attempts, Winner(attempts), raw)

\* the four attempts are made once
ParseRaw(raw) ==
    CHOOSE out \in {ParseStripped(attempts, raw) : attempts \in {Attempts(raw)}} : TRUE

\* lines 70-149: what the call returns, or the error it raises and the text
\* its debug line shows
parse_json_response(resp) ==
    CHOOSE out \in {ParseRaw(raw) : raw \in {FenceStripped(resp)}} : TRUE

----------------------------------------------------------------------------
(* The retry policy of _call_gemini (tenacity), lines 31-35 *)

\* stop_after_attempt(3)
MaxAttemptNumber == 3

\* wait_exponential(multiplier=1, min=2, max=10), exponent base 2
WaitMultiplier == 1

WaitMin == 2

WaitMax == 10

\* mutant: the comparison is strict, so a fourth attempt is made
StopAfterAttempt_Strict(attempt_number) == attempt_number > MaxAttemptNumber

\* mutant: the policy stops after two attempts
StopAfterAttempt_Two(attempt_number) == attempt_number >= 2

\* stop_after_attempt: stop once this many attempts were made
StopAfterAttempt(attempt_number) == attempt_number >= MaxAttemptNumber

\* mutant: the exponent is the attempt number, not the attempt number less 1
WaitExponential_FromTwo(attempt_number) ==
    Max(Max(0, WaitMin),
        Min(WaitMultiplier * 2 ^ attempt_number, WaitMax))

\* wait_exponential: the delay after the failure of attempt attempt_number,
\* multiplier * 2 ** (attempt_number - 1) clamped to [min, max]
WaitExponential(attempt_number) ==
    Max(Max(0, WaitMin),
        Min(WaitMultiplier * 2 ^ (attempt_number - 1), WaitMax))

\* mutant: the exception of the first attempt is raised
Reraise_First(attempt_failures) == attempt_failures[1]

\* reraise=True: the exception of the last attempt is raised as it is
Reraise(attempt_failures) == attempt_failures[Len(attempt_failures)]

----------------------------------------------------------------------------
(* The provider and the prompts *)

\* the kinds of exception generate_content or response.text can raise
ErrorKinds == {"Timeout", "ResourceExhausted", "BlockedPrompt"}

Prompts == {<<"w", "r", "i", "t", "e">>, <<"b", "l", "o", "g">>}

\* the token that ends a key of a schema written in a prompt
KeyEnd == "\": "

\* lines 157-171: the fixed instructions and schema, followed by the output
\* to repair; a key of the schema is a token of its own
RepairHeader ==
    <<"The previous output was not valid JSON.\n",
      "Below is the original output. Convert it into a single, valid JSON object that matches this schema:\n",
      "{\n",
      "  \"", "title", KeyEnd, "string,\n",
      "  \"", "meta_description", KeyEnd, "string,\n",
      "  \"", "introduction", KeyEnd, "string,\n",
      "  \"", "sections", KeyEnd, "[ { \"", "heading", KeyEnd, "string, \"",
          "content", KeyEnd, "string } ],\n",
      "  \"", "conclusion", KeyEnd, "string,\n",
      "  \"", "cta", KeyEnd, "string,\n",
      "  \"", "tags", KeyEnd, "[string]\n",
      "}\n",
      "Return ONLY the valid JSON object, with straight quotes, no trailing commas, and no additional text.\n\n",
      "ORIGINAL OUTPUT:\n">>

\* mutant: the repair request carries the text the parser worked on
RepairPrompt_Stripped(raw_response) ==
    RepairHeader \o FenceStripped(raw_response)

\* line 170: the schema, then the output as it is
RepairPrompt(raw_response) == RepairHeader \o raw_response

\* an article with every field of the schema
Article ==
    <<"{", "\"", "t", "i", "t", "l", "e", "\"", ":", "\"", "t", "\"", ",",
      "\"", "m", "e", "t", "a", "_", "d", "e", "s", "c", "r", "i", "p",
      "t", "i", "o", "n", "\"", ":", "\"", "m", "\"", ",", "\"", "i", "n",
      "t", "r", "o", "d", "u", "c", "t", "i", "o", "n", "\"", ":", "\"",
      "i", "\"", ",", "\"", "s", "e", "c", "t", "i", "o", "n", "s", "\"",
      ":", "[", "{", "\"", "h", "e", "a", "d", "i", "n", "g", "\"", ":",
      "\"", "h", "\"", ",", "\"", "c", "o", "n", "t", "e", "n", "t", "\"",
      ":", "\"", "c", "\"", "}", "]", ",", "\"", "c", "o", "n", "c", "l",
      "u", "s", "i", "o", "n", "\"", ":", "\"", "e", "\"", ",", "\"", "c",
      "t", "a", "\"", ":", "\"", "a", "\"", ",", "\"", "t", "a", "g", "s",
      "\"", ":", "[", "\"", "g", "\"", "]", "}">>

\* an article without its tags
ArticleWithoutTags ==
    <<"{", "\"", "t", "i", "t", "l", "e", "\"", ":", "\"", "t", "\"", ",",
      "\"", "m", "e", "t", "a", "_", "d", "e", "s", "c", "r", "i", "p",
      "t", "i", "o", "n", "\"", ":", "\"", "m", "\"", ",", "\"", "i", "n",
      "t", "r", "o", "d", "u", "c", "t", "i", "o", "n", "\"", ":", "\"",
      "i", "\"", ",", "\"", "s", "e", "c", "t", "i", "o", "n", "s", "\"",
      ":", "[", "]", ",", "\"", "c", "o", "n", "c", "l", "u", "s", "i",
      "o", "n", "\"", ":", "\"", "e", "\"", ",", "\"", "c", "t", "a", "\"",
      ":", "\"", "a", "\"", "}">>

\* outputs the provider may produce: an object, the object in a labelled
\* fence, prose around the object, typographic quotes with a trailing
\* comma, texts no strategy recovers, articles, and an array
Outputs ==
    { <<"{", "\"", "a", "\"", ":", "1", "}">>,
      JsonFence \o <<"\n", "{", "\"", "a", "\"", ":", "1", "}", "\n">> \o Fence,
      <<"O", "k", ":", " ", "{", "\"", "a", "\"", ":", "1", "}", ".">>,
      <<"{", "LDQ", "a", "RDQ", ":", "1", ",", "}">>,
      <<"{", "\"", "a", "\"", ":">>,
      <<"s", "o", "r", "r", "y">>,
      <<" ", "n", "o", "\n">>,
      <<"n", "u", "l", "l">>,
      <<>>,
      Article,
      ArticleWithoutTags,
      <<"[", "1", "]">> }

----------------------------------------------------------------------------
(* generate, lines 180-211, with the calls it makes *)

\* parse_json_response on the texts the provider can produce, tabulated
ParseTable == [text \in Outputs |-> parse_json_response(text)]

\* lines 199 and 204: the call of parse_json_response inside generate
Parse(text) == ParseTable[text]

NoOutcome == [status |-> "none", v |-> NoneVal, error |-> NoError]

\* the text the parse under way reads
Parsing == IF stage = "initial" THEN response ELSE repaired

GenInit ==
    /\ pc = "idle"
    /\ stage = "initial"
    /\ prompt = <<>>
    /\ attempt = 0
    /\ invocations = 0
    /\ physical = 0
    /\ sent = <<>>
    /\ failures = <<>>
    /\ delays = <<>>
    /\ response = <<>>
    /\ repaired = <<>>
    /\ parses = 0
    /\ outcome = NoOutcome

\* line 195: generate(p) enters _call_gemini(p)
Generate ==
    /\ pc = "idle"
    /\ \E p \in Prompts : prompt' = p
    /\ pc' = "attempt"
    /\ stage' = "initial"
    /\ attempt' = 1
    /\ invocations' = invocations + 1
    /\ UNCHANGED <<physical, sent, failures, delays, response, repaired,
                   parses, outcome, besidesGen>>

\* mutant: tenacity retries on a returned text too, until the policy stops
AttemptReturns_Retried ==
    /\ pc = "attempt"
    /\ physical' = physical + 1
    /\ sent' = Append(sent, prompt)
    /\ \E text \in Outputs :
          IF stage = "initial"
          THEN response' = text /\ UNCHANGED repaired
          ELSE repaired' = text /\ UNCHANGED response
    /\ pc' = IF StopAfterAttempt(attempt) THEN "parse" ELSE "sleep"
    /\ UNCHANGED <<stage, prompt, attempt, invocations, failures, delays,
                   parses, outcome, besidesGen>>

\* lines 56-64: the attempt succeeds and _call_gemini returns its text
AttemptReturns ==
    /\ pc = "attempt"
    /\ physical' = physical + 1
    /\ sent' = Append(sent, prompt)
    /\ \E text \in Outputs :
          IF stage = "initial"
          THEN response' = text /\ UNCHANGED repaired
          ELSE repaired' = text /\ UNCHANGED response
    /\ pc' = "parse"
    /\ UNCHANGED <<stage, prompt, attempt, invocations, failures, delays,
                   parses, outcome, besidesGen>>

\* mutant: the handler of the first parse also covers the initial invocation,
\* so its provider error leads to a repair request
AttemptFails_Caught ==
    /\ pc = "attempt"
    /\ physical' = physical + 1
    /\ sent' = Append(sent, prompt)
    /\ \E kind \in ErrorKinds :
          failures' = Append(failures, Error(kind, <<>>, invocations, attempt))
    /\ IF StopAfterAttempt(attempt) /\ stage = "repair"
       THEN /\ pc' = "raised"
            /\ outcome' = [status |-> "raised", v |-> NoneVal,
                           error |-> Reraise(failures')]
            /\ UNCHANGED <<stage, prompt, attempt, invocations>>
       ELSE IF StopAfterAttempt(attempt)
       THEN /\ pc' = "attempt"
            /\ stage' = "repair"
            /\ prompt' = RepairPrompt(response)
            /\ invocations' = invocations + 1
            /\ attempt' = 1
            /\ UNCHANGED outcome
       ELSE /\ pc' = "sleep"
            /\ UNCHANGED <<stage, prompt, attempt, invocations, outcome>>
    /\ UNCHANGED <<delays, response, repaired, parses, besidesGen>>

\* lines 66-68: the attempt raises; tenacity stops and reraises the failure
\* of the last attempt, which _reformat_to_json (lines 176-178) and generate
\* (lines 209-211) raise again, or it schedules a retry
AttemptFails ==
    /\ pc = "attempt"
    /\ physical' = physical + 1
    /\ sent' = Append(sent, prompt)
    /\ \E kind \in ErrorKinds :
          failures' = Append(failures, Error(kind, <<>>, invocations, attempt))
    /\ IF StopAfterAttempt(attempt)
       THEN /\ pc' = "raised"
            /\ outcome' = [status |-> "raised", v |-> NoneVal,
                           error |-> Reraise(failures')]
       ELSE /\ pc' = "sleep"
            /\ UNCHANGED outcome
    /\ UNCHANGED <<stage, prompt, attempt, invocations, delays, response,
                   repaired, parses, besidesGen>>

\* tenacity sleeps wait(retry_state) and starts the next attempt
Sleep ==
    /\ pc = "sleep"
    /\ delays' = Append(delays, WaitExponential(attempt))
    /\ attempt' = attempt + 1
    /\ pc' = "attempt"
    /\ UNCHANGED <<stage, prompt, invocations, physical, sent, failures,
                   response, repaired, parses, outcome, besidesGen>>

\* lines 199/204, 206-207: the parse succeeds and generate returns the data
ParseSucceeds ==
    /\ pc = "parse"
    /\ \E r \in {Parse(Parsing)} :
          /\ r.ok
          /\ outcome' = [status |-> "returned", v |-> r.v, error |-> NoError]
    /\ parses' = parses + 1
    /\ pc' = "returned"
    /\ UNCHANGED <<stage, prompt, attempt, invocations, physical, sent,
                   failures, delays, response, repaired, besidesGen>>

\* lines 200-203, 173: the first parse raises ValueError; _reformat_to_json
\* builds the repair prompt and enters _call_gemini
FirstParseFails ==
    /\ pc = "parse"
    /\ stage = "initial"
    /\ ~Parse(response).ok
    /\ parses' = parses + 1
    /\ stage' = "repair"
    /\ prompt' = RepairPrompt(response)
    /\ invocations' = invocations + 1
    /\ attempt' = 1
    /\ failures' = <<>>
    /\ delays' = <<>>
    /\ pc' = "attempt"
    /\ UNCHANGED <<physical, sent, response, repaired, outcome, besidesGen>>

\* mutant: a failed parse of the repaired output asks for another repair
SecondParseFails_Retry ==
    /\ pc = "parse"
    /\ stage = "repair"
    /\ ~Parse(repaired).ok
    /\ parses' = parses + 1
    /\ prompt' = RepairPrompt(repaired)
    /\ invocations' = invocations + 1
    /\ attempt' = 1
    /\ failures' = <<>>
    /\ delays' = <<>>
    /\ pc' = "attempt"
    /\ UNCHANGED <<stage, physical, sent, response, repaired, outcome, besidesGen>>

\* lines 204, 209-211: the parse of the repaired output raises ValueError,
\* which generate raises again
SecondParseFails ==
    /\ pc = "parse"
    /\ stage = "repair"
    /\ \E r \in {Parse(repaired)} :
          /\ ~r.ok
          /\ outcome' = [status |-> "raised", v |-> NoneVal, error |-> r.error]
    /\ parses' = parses + 1
    /\ pc' = "raised"
    /\ UNCHANGED <<stage, prompt, attempt, invocations, physical, sent,
                   failures, delays, response, repaired, besidesGen>>

----------------------------------------------------------------------------
(* Arguments for a stand-alone call of parse_json_response *)

\* the longest text of the "plain" shape
MaxPlain == 3

Q == "\""

\* valid payloads: objects a strict parse accepts
Payloads ==
    { <<"{", "}">>,
      <<"{", Q, "a", Q, ":", "1", "}">>,
      <<"{", Q, "a", Q, ":", Q, "b", Q, "}">>,
      <<"{", Q, "a", Q, ":", " ", "{", Q, "b", Q, ":", "1", "}", "}">>,
      <<"{", Q, "a", Q, ":", "[", Q, "b", Q, ",", "2", "]", "}">>,
      <<"{", Q, "a", Q, ":", "n", "u", "l", "l", ",", Q, "b", Q, ":", "1", "}">>,
      <<"{", Q, "a", Q, ":", Q, "BT", "BT", "BT", Q, "}">>,
      <<"{", Q, "a", Q, ":", Q, "x", ",", "}", Q, "}">>,
      <<"{", Q, "a", Q, ":", Q, "i", "t", "RSQ", "s", Q, "}">> }

\* text before a fenced block
FenceBefore ==
    { <<>>,
      <<"H", "i", ":", "\n">>,
      <<"{", " ">>,
      Fence \o <<"x">> \o Fence \o <<" ">> }

\* text after a fenced block
FenceAfter ==
    { <<>>,
      <<"\n", "o", "k">>,
      <<" ", "}">>,
      <<"\n">> \o Fence \o <<"y">> \o Fence }

\* space between a fence and the payload
FencePad == { <<>>, <<"\n">> }

\* prose without braces to put before a payload
ProseBefore ==
    { <<>>,
      <<"H", "e", "r", "e", ":", " ">>,
      <<"[", "1", "]", "\n">>,
      Fence \o <<"\n">> }

\* prose without braces to put after a payload
ProseAfter ==
    { <<>>,
      <<" ", "o", "k", ".">>,
      <<"\n", "\t">>,
      <<"\n">> \o Fence }

\* is position i of the valid payload p outside its string literals
\* (the payloads hold no escaped quote)
Structural(p, i) == Count(Q, Slice(p, 1, i - 1)) % 2 = 0

\* the positions of the closing braces and brackets of the payload p
Closers(p) == {i \in 1..Len(p) : p[i] \in {"}", "]"} /\ Structural(p, i)}

\* p with a comma and the padding pad put before the closer at position i
WithTrailingComma(p, i, pad) ==
    Slice(p, 1, i - 1) \o <<",">> \o pad \o Slice(p, i, Len(p))

\* p with its string delimiters written as typographic quotation marks
Typographic(p) ==
    [i \in 1..Len(p) |->
        IF p[i] # Q THEN p[i]
        ELSE IF Structural(p, i) THEN "LDQ" ELSE "RDQ"]

\* the alphabet of the "plain" shape
PlainChars == {"[", "]", "1", Q, "a", " "}

RECURSIVE TextsUpTo(_, _)
TextsUpTo(chars, n) ==
    IF n = 0 THEN { <<>> }
    ELSE LET shorter == TextsUpTo(chars, n - 1)
         IN  shorter \cup {Append(t, c) : t \in shorter, c \in chars}

\* texts without braces the tests above do not build
PlainExtra ==
    { <<"n", "u", "l", "l">>,
      <<"t", "r", "u", "e">>,
      <<" ", "s", "o", "r", "r", "y", "\n">>,
      Fence \o <<" ", "[", "1", "]", " ">> \o Fence,
      JsonFence \o <<"\n", "a", "\n">> \o Fence \o <<"b">> }

Case(shape, payload, text) == [shape |-> shape, payload |-> payload, text |-> text]

\* a payload in a fenced block labelled json, with text before and after
FencedCases ==
    { Case("fenced", p, b \o JsonFence \o pad \o p \o pad \o Fence \o a) :
        p \in Payloads, b \in FenceBefore, a \in FenceAfter, pad \in FencePad }

\* a payload surrounded by prose that holds no brace
ProseCases ==
    { Case("prose", p, b \o p \o a) :
        p \in Payloads, b \in ProseBefore, a \in ProseAfter }

\* a payload written with typographic quotes and one trailing comma
TypographicCases ==
    UNION { { Case("typographic", p, Typographic(WithTrailingComma(p, i, pad))) :
                i \in Closers(p), pad \in FencePad } : p \in Payloads }

\* a text without braces
PlainCases ==
    { Case("plain", <<>>, t) : t \in TextsUpTo(PlainChars, MaxPlain) \cup PlainExtra }

\* text with a closing brace to put after a payload
ScanAfter ==
    { <<" ", "}">>,
      <<" ", "y", " ", "}", " ", "z">>,
      <<" ", "{", "}">>,
      <<"\n", "}", "}">> }

\* text without braces to put before it
ScanBefore == { <<>>, <<"x", " ">> }

\* a valid payload with as many opening as closing braces, two of them
\* inside a string
BracePayload == <<"{", Q, "a", Q, ":", Q, "}", "{", Q, "}">>

\* a payload followed by text that holds a closing brace
ScanCases ==
    { Case("scan", p, b \o p \o a) :
        p \in Payloads \cup {BracePayload}, b \in ScanBefore, a \in ScanAfter }

\* the same, the payload written with typographic quotation marks
TypographicScanCases ==
    { Case("typographic scan", p, Typographic(p) \o a) :
        p \in Payloads, a \in ScanAfter }

\* a value that is no object and holds one
QuotedCases ==
    { Case("quoted", <<"{", "}">>, t) :
        t \in { <<Q, "{", "}", Q>>,
                 <<"[", "{", "}", "]">>,
                 <<"[", "{", "}", ",", "{", Q, "a", Q, ":", "1", "}", "]">> } }

\* an object with a trailing comma and a newline: inside a string, and
\* between two members
NewlineCases ==
    { Case("newline", <<>>, t) :
        t \in { <<"{", Q, "a", Q, ":", Q, "x", "\n", "y", Q, ",", "}">>,
                 <<"{", Q, "a", Q, ":", "1", ",", "\n", Q, "b", Q, ":", "2",
                   ",", "}">> } }

ParseCases ==
    FencedCases \cup ProseCases \cup TypographicCases \cup PlainCases
        \cup ScanCases \cup TypographicScanCases \cup QuotedCases
        \cup NewlineCases

ParseIdle ==
    /\ ppc = "idle"
    /\ pcase = Case("none", <<>>, <<>>)
    /\ pin = <<>>
    /\ pout = Raised(NoError, <<>>)

ParseInit ==
    /\ ppc = "ready"
    /\ pcase \in ParseCases
    /\ pin = pcase.text
    /\ pout = Raised(NoError, <<>>)

\* parse_json_response(pin) returns
ParseReturns ==
    /\ ppc = "ready"
    /\ \E r \in {parse_json_response(pin)} : r.ok /\ pout' = r
    /\ ppc' = "done"
    /\ UNCHANGED <<pcase, pin, besidesParse>>

\* parse_json_response(pin) raises
ParseRaises ==
    /\ ppc = "ready"
    /\ \E r \in {parse_json_response(pin)} : ~r.ok /\ pout' = r
    /\ ppc' = "done"
    /\ UNCHANGED <<pcase, pin, besidesParse>>

----------------------------------------------------------------------------
(* ContentExtractor, src/app/core/content_extractor.py.  The markup of a   *)
(* page is a tree of elements: the tag, the classes, the name and content  *)
(* attributes (of a meta tag), the text directly inside the element and    *)
(* the child elements, which follow that text.                             *)

\* config.py line 20: the default of settings.max_content_length
max_content_length == 10000

Node(tag, classes, name, content_attr, text, kids) ==
    [tag |-> tag, class |-> classes, name |-> name, content |-> content_attr,
     text |-> text, kids |-> kids]

Element(tag, text, kids) == Node(tag, {}, "", <<>>, text, kids)

\* what soup.find returns when nothing matches
NoNode == Element("None", <<>>, <<>>)

\* lines 86-87: the elements removed before anything is read
Unwanted == {"script", "style", "nav", "header", "footer", "aside", "form",
             "iframe", "noscript"}

\* line 106: the classes that mark a content container
ContentClasses == {"content", "post", "entry"}

\* line 120: the elements whose text is collected
TextTags == {"p", "h1", "h2", "h3", "h4", "li"}

\* lines 86-88: element.decompose() for every unwanted element
RECURSIVE Decompose(_)
Decompose(nodes) ==
    IF nodes = <<>> THEN <<>>
    ELSE LET n == Head(nodes)
         IN  (IF n.tag \in Unwanted THEN <<>>
              ELSE << [n EXCEPT !.kids = Decompose(n.kids)] >>)
             \o Decompose(Tail(nodes))

\* the elements below a point of the tree, in document order
RECURSIVE Descendants(_)
Descendants(nodes) ==
    IF nodes = <<>> THEN <<>>
    ELSE <<Head(nodes)>> \o Descendants(Head(nodes).kids)
                         \o Descendants(Tail(nodes))

\* soup.find(tag): the first element with that tag, or None
FindTag(nodes, tag) ==
    LET found == SelectSeq(Descendants(nodes), LAMBDA n : n.tag = tag)
    IN  IF found = <<>> THEN NoNode ELSE Head(found)

\* line 108: soup.find('div', {'class': [...]})
FindContentDiv(nodes) ==
    LET found == SelectSeq(Descendants(nodes),
                     LAMBDA n : n.tag = "div" /\ n.class \cap ContentClasses # {})
    IN  IF found = <<>> THEN NoNode ELSE Head(found)

\* line 99: soup.find('meta', attrs={'name': 'description'})
FindMetaDescription(nodes) ==
    LET found == SelectSeq(Descendants(nodes),
                     LAMBDA n : n.tag = "meta" /\ n.name = "description")
    IN  IF found = <<>> THEN NoNode ELSE Head(found)

\* get_text(strip=True): the strings below the element, each stripped
RECURSIVE GetText(_)
GetText(nodes) ==
    IF nodes = <<>> THEN <<>>
    ELSE Strip(Head(nodes).text) \o GetText(Head(nodes).kids)
                                 \o GetText(Tail(nodes))

\* '\n'.join(lines)
RECURSIVE JoinLines(_)
JoinLines(lines) ==
    IF lines = <<>> THEN <<>>
    ELSE IF Len(lines) = 1 THEN Head(lines)
    ELSE Head(lines) \o <<"\n">> \o JoinLines(Tail(lines))

\* lines 120-121: the text of a region
RECURSIVE NonEmptyTexts(_)
NonEmptyTexts(nodes) ==
    IF nodes = <<>> THEN <<>>
    ELSE LET t == GetText(<<Head(nodes)>>)
         IN  (IF t # <<>> THEN <<t>> ELSE <<>>) \o NonEmptyTexts(Tail(nodes))

\* mutant: only the paragraphs of a region are read
CollectText_ParagraphsOnly(region) ==
    JoinLines(NonEmptyTexts(
        SelectSeq(Descendants(region.kids), LAMBDA n : n.tag = "p")))

\* lines 120-121: the elements read, and their texts joined
CollectText(region) ==
    JoinLines(NonEmptyTexts(
        SelectSeq(Descendants(region.kids), LAMBDA n : n.tag \in TextTags)))

\* lines 91-95: the document title, else the first h1
TitleOf(soup) ==
    LET title == FindTag(soup, "title")
        h1 == FindTag(soup, "h1")
    IN  IF title # NoNode
        THEN IF title.kids = <<>> THEN title.text ELSE <<>>
        ELSE IF h1 # NoNode THEN GetText(<<h1>>) ELSE <<>>

\* lines 98-101
MetaDescriptionOf(soup) == FindMetaDescription(soup).content

\* mutant: a region found without text is passed over for the next one
MainContent_FallsThrough(soup) ==
    LET found == SelectSeq(<<FindTag(soup, "article"), FindTag(soup, "main"),
                             FindContentDiv(soup), FindTag(soup, "body")>>,
                           LAMBDA n : n # NoNode /\ CollectText(n) # <<>>)
    IN  IF found = <<>> THEN NoNode ELSE Head(found)

\* mutant: the main element is preferred to the article element
MainContent_MainFirst(soup) ==
    LET found == SelectSeq(<<FindTag(soup, "main"), FindTag(soup, "article"),
                             FindContentDiv(soup), FindTag(soup, "body")>>,
                           LAMBDA n : n # NoNode)
    IN  IF found = <<>> THEN NoNode ELSE Head(found)

\* lines 105-116: the first article, else the first main, else the first
\* content container, else the body; an element found is used even when it
\* is empty
MainContent(soup) ==
    LET found == SelectSeq(<<FindTag(soup, "article"), FindTag(soup, "main"),
                             FindContentDiv(soup), FindTag(soup, "body")>>,
                           LAMBDA n : n # NoNode)
    IN  IF found = <<>> THEN NoNode ELSE Head(found)

\* the dictionary the strategies return; None is NoContent
Content(title, text, meta_description) ==
    [none |-> FALSE, title |-> title, text |-> text,
     meta_description |-> meta_description]

NoContent == [none |-> TRUE, title |-> <<>>, text |-> <<>>, meta_description |-> <<>>]

\* "not content or not content.get('text')", lines 161 and 165
NoText(c) == c.none \/ c.text = <<>>

\* lines 35-59: the article library raises, or parses the page
extract_with_newspaper(article) ==
    IF article.raises THEN NoContent
    ELSE IF article.text # <<>>
         THEN Content(article.title, article.text, article.meta_description)
         ELSE NoContent

\* lines 83-137 on the markup fetched
SoupContent(soup) ==
    LET main_content == MainContent(soup)
        text == CollectText(main_content)
    IN  IF main_content # NoNode /\ text # <<>>
        THEN Content(TitleOf(soup), text, MetaDescriptionOf(soup))
        ELSE NoContent

\* lines 72-141: the fetch fails (an exception, or raise_for_status on an
\* error status), or the markup is read
extract_with_beautifulsoup(fetch, markup) ==
    IF fetch # "ok" THEN NoContent ELSE SoupContent(Decompose(markup))

\* mutant: the end of the text is kept
Truncate_Suffix(text, n) ==
    IF Len(text) > n THEN Slice(text, Len(text) - n + 1, Len(text)) ELSE text

\* mutant: a text as long as the limit is cut too, by one character more
Truncate_Short(text, n) ==
    IF Len(text) >= n THEN Prefix(text, n - 1) ELSE text

\* lines 169-171
Truncate(text, n) == IF Len(text) > n THEN Prefix(text, n) ELSE text

\* line 166
ExtractionError == Error("ValueError",
    <<"Failed to extract content from URL">>, 0, 0)

(* The pages *)

\* longest text of one paragraph, and largest small limit on the body text
MaxPara == 3

ParaChars == {"a", " "}

ParaTexts == TextsUpTo(ParaChars, MaxPara)

P(t) == Element("p", t, <<>>)

Div(classes, text, kids) == Node("div", classes, "", <<>>, text, kids)

Head_(kids) == Element("head", <<>>, kids)

TitleTag == Element("title", <<"T">>, <<>>)

MetaTag == Node("meta", {}, "description", <<"d">>, <<>>, <<>>)

Body(kids) == Element("body", <<>>, kids)

Page(kids) == << Head_(<<TitleTag, MetaTag>>), Body(kids) >>

Untitled(kids) == << Head_(<<>>), Body(kids) >>

\* a page whose title element holds the text t
Titled(t, kids) == << Head_(<<Element("title", t, <<>>)>>), Body(kids) >>

\* the body of a page around one paragraph text
Bodies(t) ==
    { <<Element("article", <<>>, <<P(t)>>)>>,
      <<Element("form", <<>>, <<Element("article", <<>>, <<P(t)>>)>>)>>,
      <<Div({}, <<>>, <<Element("article", <<>>, <<P(t)>>)>>)>>,
      <<Element("article", <<>>, <<>>), Element("article", <<>>, <<P(t)>>)>>,
      <<Element("main", <<>>, <<P(<<"m">>)>>), Element("article", <<>>, <<P(t)>>)>>,
      <<Element("main", <<>>, <<P(t)>>)>>,
      <<Div({"post", "wide"}, <<>>, <<P(t)>>)>>,
      <<Div({"wide"}, <<>>, <<P(t)>>)>>,
      <<Element("article", <<>>, <<Div({}, t, <<>>)>>), Element("main", <<>>, <<P(t)>>)>>,
      <<Element("article", <<>>, <<Element("li", <<>>, <<P(t)>>)>>)>>,
      <<Element("nav", <<>>, <<P(t)>>),
        Element("article", <<>>, <<Element("h2", <<"a">>, <<>>), P(t)>>)>>,
      <<Element("article", <<>>,
            <<Element("header", <<>>, <<Element("h1", <<"a">>, <<>>)>>),
              P(t), Element("script", <<"a">>, <<>>)>>)>> }

Markups ==
    UNION { {Page(b) : b \in Bodies(t)} : t \in ParaTexts }
    \cup { Untitled(<<Element("h1", <<" ", "a">>, <<>>), P(<<"a">>)>>),
           Untitled(<<Element("header", <<>>, <<Element("h1", <<"a">>, <<>>)>>),
                      P(<<"a">>)>>),
           Titled(<<>>, <<Element("h1", <<"a">>, <<>>), P(<<"a">>)>>),
           Titled(<<" ">>, <<Element("h1", <<"a">>, <<>>), P(<<"a">>)>>),
           <<>> }

\* what the article library makes of the page
ArticleParsed(text) ==
    [raises |-> FALSE, error |-> "", title |-> <<"T">>, text |-> text,
     meta_description |-> <<"d">>]

ArticleRaises(e) ==
    [raises |-> TRUE, error |-> e, title |-> <<>>, text |-> <<>>,
     meta_description |-> <<>>]

Articles ==
    { ArticleParsed(t) : t \in { <<>>, <<" ">>, <<"a", "b">>,
                                 <<"a", "b", "c", "d">> } }
    \cup { ArticleRaises(e) : e \in {"ArticleException", "ConnectionError"} }

\* requests.get and raise_for_status, lines 74-81
Fetches == {"ok", "HTTPError", "Timeout"}

\* settings.max_content_length: the default and small limits
MaxLengths == 1..MaxPara \cup {max_content_length}

Tried(tier, result) == [tier |-> tier, result |-> result]

NoExtraction == [status |-> "none", content |-> NoContent, error |-> NoError]

ExtractIdle ==
    /\ epc = "idle"
    /\ page = [article |-> ArticleRaises(""), fetch |-> "ok", markup |-> <<>>]
    /\ max_length = max_content_length
    /\ content = NoContent
    /\ tried = <<>>
    /\ eout = NoExtraction

ExtractInit ==
    /\ epc = "newspaper"
    /\ page \in [article : Articles, fetch : Fetches, markup : Markups]
    /\ max_length \in MaxLengths
    /\ content = NoContent
    /\ tried = <<>>
    /\ eout = NoExtraction

\* mutant: a failure of the article library leaves extract
ExtractWithNewspaper_Propagates ==
    /\ epc = "newspaper"
    /\ \E c \in {extract_with_newspaper(page.article)} :
          /\ content' = c
          /\ tried' = Append(tried, Tried("newspaper", c))
          /\ IF page.article.raises
             THEN /\ epc' = "done"
                  /\ eout' = [status |-> "raised", content |-> NoContent,
                              error |-> Error(page.article.error, <<>>, 0, 0)]
             ELSE /\ epc' = IF NoText(c) THEN "beautifulsoup" ELSE "validate"
                  /\ UNCHANGED eout
    /\ UNCHANGED <<page, max_length, besidesExtract>>

\* mutant: the secondary strategy runs whatever the primary found
ExtractWithNewspaper_AlwaysFallsBack ==
    /\ epc = "newspaper"
    /\ \E c \in {extract_with_newspaper(page.article)} :
          /\ content' = c
          /\ tried' = Append(tried, Tried("newspaper", c))
    /\ epc' = "beautifulsoup"
    /\ UNCHANGED <<page, max_length, eout, besidesExtract>>

\* lines 158-161: the primary strategy, and whether the fallback is needed
ExtractWithNewspaper ==
    /\ epc = "newspaper"
    /\ \E c \in {extract_with_newspaper(page.article)} :
          /\ content' = c
          /\ tried' = Append(tried, Tried("newspaper", c))
          /\ epc' = IF NoText(c) THEN "beautifulsoup" ELSE "validate"
    /\ UNCHANGED <<page, max_length, eout, besidesExtract>>

\* line 162: the secondary strategy
ExtractWithBeautifulSoup ==
    /\ epc = "beautifulsoup"
    /\ \E c \in {extract_with_beautifulsoup(page.fetch, page.markup)} :
          /\ content' = c
          /\ tried' = Append(tried, Tried("beautifulsoup", c))
    /\ epc' = "validate"
    /\ UNCHANGED <<page, max_length, eout, besidesExtract>>

\* mutant: without text, extract returns the empty document
ExtractRaises_ReturnsEmpty ==
    /\ epc = "validate"
    /\ NoText(content)
    /\ eout' = [status |-> "returned", content |-> content, error |-> NoError]
    /\ epc' = "done"
    /\ UNCHANGED <<page, max_length, content, tried, besidesExtract>>

\* lines 165-166: no strategy produced text
ExtractRaises ==
    /\ epc = "validate"
    /\ NoText(content)
    /\ eout' = [status |-> "raised", content |-> NoContent, error |-> ExtractionError]
    /\ epc' = "done"
    /\ UNCHANGED <<page, max_length, content, tried, besidesExtract>>

\* lines 169-174: the text is cut to max_length and the document returned
ExtractReturns ==
    /\ epc = "validate"
    /\ ~NoText(content)
    /\ content' = [content EXCEPT !.text = Truncate(content.text, max_length)]
    /\ eout' = [status |-> "returned", content |-> content', error |-> NoError]
    /\ epc' = "done"
    /\ UNCHANGED <<page, max_length, tried, besidesExtract>>

----------------------------------------------------------------------------
(* ImageFetcher, src/app/core/image_fetcher.py.  A keyword and a field of a *)
(* photo are single strings; "None" stands for Python's None (a JSON null).  *)

\* line 67: the status of a successful search
StatusOk == 200

\* line 49: the keywords that make the search query
QueryKeywords == 3

\* line 111: get_featured_image asks for one image
FeaturedImages == 1

\* main.py line 198: the images asked for the sections
AdditionalImages == 3

\* line 49: " ".join(keywords[:3]) if keywords else "blog post"
RECURSIVE JoinWords(_)
JoinWords(words) ==
    IF words = <<>> THEN <<>>
    ELSE IF Len(words) = 1 THEN words
    ELSE <<Head(words), " ">> \o JoinWords(Tail(words))

SearchQuery(keywords) ==
    IF keywords # <<>> THEN JoinWords(Prefix(keywords, QueryKeywords))
    ELSE <<"blog post">>

\* lines 53-65: the request of one search
SearchRequest(key, keywords, num_images) ==
    [authorization |-> key, query |-> SearchQuery(keywords), per_page |-> num_images]

\* an entry of "results": has_urls is whether img["urls"] is there
Photo(id, has_urls, name, alt_description) ==
    [id |-> id, has_urls |-> has_urls, name |-> name,
     alt_description |-> alt_description]

\* lines 81-89: the dictionary built for one photo
ImageOf(photo, search_query) ==
    [url |-> <<"regular", photo.id>>,
     url_small |-> <<"small", photo.id>>,
     url_thumb |-> <<"thumb", photo.id>>,
     alt_text |-> IF photo.alt_description # <<>> THEN photo.alt_description
                  ELSE search_query,
     photographer |-> photo.name,
     photographer_url |-> <<"html", photo.id>>,
     download_location |-> <<"download", photo.id>>]

\* what get_featured_image returns when there is no image, line 112
NoImage ==
    [url |-> <<>>, url_small |-> <<>>, url_thumb |-> <<>>, alt_text |-> <<>>,
     photographer |-> "None", photographer_url |-> <<>>,
     download_location |-> <<>>]

\* lines 80-92: the images of the first num_images results; a result
\* without "urls" raises KeyError, which line 97 turns into an empty list
ImagesOf(results, num_images, search_query) ==
    IF \E k \in 1..Min(num_images, Len(results)) : ~results[k].has_urls
    THEN <<>>
    ELSE [k \in 1..Min(num_images, Len(results)) |->
             ImageOf(results[k], search_query)]

\* what the image service does with one request
ServiceFails(e) == [kind |-> e, status |-> 0, results |-> <<>>]

ServiceStatus(code) == [kind |-> "response", status |-> code, results |-> <<>>]

ServiceFinds(results) == [kind |-> "response", status |-> StatusOk, results |-> results]

\* lines 43-99
fetch_images(key, keywords, num_images, service) ==
    IF key = "" THEN <<>>
    ELSE IF service.kind # "response" THEN <<>>
    ELSE IF service.status # StatusOk THEN <<>>
    ELSE ImagesOf(service.results, num_images, SearchQuery(keywords))

\* mutant: the search is sent without a key too
RequestsOf_Always(key, keywords, num_images) ==
    <<SearchRequest(key, keywords, num_images)>>

\* the requests fetch_images sends, lines 43-65
RequestsOf(key, keywords, num_images) ==
    IF key = "" THEN <<>> ELSE <<SearchRequest(key, keywords, num_images)>>

\* lines 111-112
get_featured_image(key, keywords, service) ==
    LET images == fetch_images(key, keywords, FeaturedImages, service)
    IN  IF images # <<>> THEN images[1] ELSE NoImage

\* models.py lines 49-57: ImageData(**img) accepts strings only
ImageDataValid(img) == img.photographer # "None"

(* Calls of the image fetcher *)

\* most results of one search
MaxPhotos == 2

Photos ==
    { Photo(1, TRUE, "Ann", <<"a", "l", "t">>),
      Photo(2, TRUE, "Bo", <<>>),
      Photo(3, FALSE, "Cy", <<>>),
      Photo(4, TRUE, "None", <<>>) }

Services ==
    { ServiceFails("Timeout"), ServiceFails("ConnectionError"),
      ServiceFails("JSONDecodeError"), ServiceStatus(403) }
    \cup { ServiceFinds(r) : r \in TextsUpTo(Photos, MaxPhotos) }

\* settings.unsplash_access_key: not set, or set
AccessKeys == {"", "key"}

KeywordLists == { <<>>, <<"seo">>, <<"seo", "blog", "ai", "web">> }

ImageCalls ==
    { [fn |-> "fetch_images", keywords |-> k, num_images |-> n] :
        k \in KeywordLists, n \in {FeaturedImages, AdditionalImages} }
    \cup { [fn |-> "get_featured_image", keywords |-> k, num_images |-> FeaturedImages] :
             k \in KeywordLists }

NoImages ==
    [status |-> "none", images |-> <<>>, image |-> NoImage,
     service |-> ServiceFails("none")]

ImageIdle ==
    /\ ipc = "idle"
    /\ unsplash_access_key = ""
    /\ icall = [fn |-> "none", keywords |-> <<>>, num_images |-> 0]
    /\ isent = <<>>
    /\ iout = NoImages

ImageInit ==
    /\ ipc = "ready"
    /\ unsplash_access_key \in AccessKeys
    /\ icall \in ImageCalls
    /\ isent = <<>>
    /\ iout = NoImages

\* fetch_images(keywords, num_images) returns
FetchImagesReturns ==
    /\ ipc = "ready"
    /\ icall.fn = "fetch_images"
    /\ \E service \in Services :
          iout' = [status |-> "returned",
                   images |-> fetch_images(unsplash_access_key, icall.keywords,
                                           icall.num_images, service),
                   image |-> NoImage,
                   service |-> service]
    /\ isent' = isent \o RequestsOf(unsplash_access_key, icall.keywords,
                                    icall.num_images)
    /\ ipc' = "done"
    /\ UNCHANGED <<unsplash_access_key, icall, besidesImage>>

\* get_featured_image(keywords) returns
GetFeaturedImageReturns ==
    /\ ipc = "ready"
    /\ icall.fn = "get_featured_image"
    /\ \E service \in Services :
          iout' = [status |-> "returned",
                   images |-> <<>>,
                   image |-> get_featured_image(unsplash_access_key,
                                                icall.keywords, service),
                   service |-> service]
    /\ isent' = isent \o RequestsOf(unsplash_access_key, icall.keywords,
                                    FeaturedImages)
    /\ ipc' = "done"
    /\ UNCHANGED <<unsplash_access_key, icall, besidesImage>>

----------------------------------------------------------------------------
(* The request model and the URL validator: src/app/models.py lines 10-27,  *)
(* src/app/core/url_validator.py.                                          *)

LowerLetters ==
    <<"a", "b", "c", "d", "e", "f", "g", "h", "i", "j", "k", "l", "m", "n",
      "o", "p", "q", "r", "s", "t", "u", "v", "w", "x", "y", "z">>

UpperLetters ==
    <<"A", "B", "C", "D", "E", "F", "G", "H", "I", "J", "K", "L", "M", "N",
      "O", "P", "Q", "R", "S", "T", "U", "V", "W", "X", "Y", "Z">>

\* str.lower() of one character
LowerChar(c) ==
    IF \E k \in DOMAIN UpperLetters : UpperLetters[k] = c
    THEN LowerLetters[CHOOSE k \in DOMAIN UpperLetters : UpperLetters[k] = c]
    ELSE c

Lower(s) == [k \in DOMAIN s |-> LowerChar(s[k])]

IsLetter(c) == \E k \in DOMAIN LowerLetters : LowerLetters[k] = LowerChar(c)

\* the characters of a URL scheme after its first letter
SchemeChars == Digits \cup {"+", "-", "."}

\* urlparse: the end of the scheme, 0 when the text has none
SchemeEnd(url) ==
    IF /\ FindChar(":", url) > 1
       /\ IsLetter(url[1])
       /\ \A k \in 1..(FindChar(":", url) - 1) :
             IsLetter(url[k]) \/ url[k] \in SchemeChars
    THEN FindChar(":", url)
    ELSE 0

\* urlparse(url).scheme, url_validator.py line 43
UrlScheme(url) == Lower(Slice(url, 1, SchemeEnd(url) - 1))

\* what follows "scheme:"
AfterScheme(url) == Slice(url, SchemeEnd(url) + 1, Len(url))

\* the text up to the first of "/", "?" and "#"
UpToPath(s) ==
    LET ends == {k \in DOMAIN s : s[k] \in {"/", "?", "#"}}
    IN  IF ends = {} THEN s
        ELSE Slice(s, 1, (CHOOSE k \in ends : \A j \in ends : k <= j) - 1)

\* urlparse(url).netloc, url_validator.py line 47
UrlNetloc(url) ==
    IF Prefix(AfterScheme(url), 2) = <<"/", "/">>
    THEN UpToPath(Slice(AfterScheme(url), 3, Len(AfterScheme(url))))
    ELSE <<>>

\* the path, query and fragment
UrlPath(url) ==
    IF Prefix(AfterScheme(url), 2) = <<"/", "/">>
    THEN Slice(AfterScheme(url), 3 + Len(UrlNetloc(url)), Len(AfterScheme(url)))
    ELSE AfterScheme(url)

\* the host of a netloc: without the port (the netlocs of the model hold no
\* user information)
Hostname(netloc) == Lower(BeforeFirst(<<":">>, netloc))

Http == <<"h", "t", "t", "p">>

Https == <<"h", "t", "t", "p", "s">>

\* models.py line 13: HttpUrl accepts http and https URLs with a host
HttpUrlValid(url) ==
    /\ UrlScheme(url) \in {Http, Https}
    /\ Hostname(UrlNetloc(url)) # <<>>

\* main.py line 124: str(request.url), the host in lower case and the
\* empty path written "/"
HttpUrlText(url) ==
    UrlScheme(url) \o <<":", "/", "/">> \o Lower(UrlNetloc(url))
        \o (IF UrlPath(url) = <<>> THEN <<"/">> ELSE UrlPath(url))

\* models.py line 14
Tones == {"professional", "casual", "technical", "conversational"}

\* models.py line 15
DefaultTone == "professional"

\* models.py line 19
DefaultWordCount == 800

\* models.py line 20
MinWordCount == 300

\* models.py line 21
MaxWordCount == 2000

\* the value of a text of digits
RECURSIVE DecimalValue(_)
DecimalValue(digits) ==
    IF digits = <<>> THEN 0
    ELSE 10 * DecimalValue(Slice(digits, 1, Len(digits) - 1))
         + (CHOOSE d \in 0..9 : <<"0", "1", "2", "3", "4", "5", "6", "7", "8", "9">>[d + 1]
                                   = digits[Len(digits)])

IsInteger(text) == text # <<>> /\ \A k \in DOMAIN text : text[k] \in Digits

\* the fields of the request once defaults are filled in; a field left out
\* is the empty text
ToneOf(raw) == IF raw.tone = "" THEN DefaultTone ELSE raw.tone

WordCountOf(raw) ==
    IF raw.word_count = <<>> THEN DefaultWordCount
    ELSE IF IsInteger(raw.word_count) THEN DecimalValue(raw.word_count)
    ELSE -1

\* models.py lines 10-27: the request body is a BlogGenerationRequest
RequestValid(raw) ==
    /\ HttpUrlValid(raw.url)
    /\ ToneOf(raw) \in Tones
    /\ raw.word_count # <<>> => IsInteger(raw.word_count)
    /\ WordCountOf(raw) >= MinWordCount
    /\ WordCountOf(raw) <= MaxWordCount

BlogGenerationRequest(raw) ==
    [url |-> HttpUrlText(raw.url), tone |-> ToneOf(raw),
     word_count |-> WordCountOf(raw)]

\* url_validator.py line 22
excluded_domains ==
    { <<"l", "o", "c", "a", "l", "h", "o", "s", "t">>,
      <<"1", "2", "7", ".", "0", ".", "0", ".", "1">>,
      <<"0", ".", "0", ".", "0", ".", "0">> }

Checked(ok, error) == [ok |-> ok, error |-> error]

\* mutant: local addresses are let through
validate_url_format_Local(url) ==
    IF url = <<>>
    THEN Checked(FALSE, "URL must be a non-empty string")
    ELSE IF UrlScheme(url) \notin {Http, Https}
    THEN Checked(FALSE, "URL must start with http:// or https://")
    ELSE IF UrlNetloc(url) = <<>>
    THEN Checked(FALSE, "Invalid URL: missing domain")
    ELSE Checked(TRUE, "")

\* url_validator.py lines 24-59
validate_url_format(url) ==
    IF url = <<>>
    THEN Checked(FALSE, "URL must be a non-empty string")
    ELSE IF UrlScheme(url) \notin {Http, Https}
    THEN Checked(FALSE, "URL must start with http:// or https://")
    ELSE IF UrlNetloc(url) = <<>>
    THEN Checked(FALSE, "Invalid URL: missing domain")
    ELSE IF \E excluded \in excluded_domains :
               Contains(excluded, Lower(UrlNetloc(url)))
    THEN Checked(FALSE, "Local URLs are not supported")
    ELSE Checked(TRUE, "")

\* the answer to the HEAD request of check_accessibility
ProbeAnswers(code) == [kind |-> "response", status |-> code]

ProbeFails(e) == [kind |-> e, status |-> 0]

\* mutant: status 400 counts as accessible
check_accessibility_Loose(probe) ==
    IF probe.kind # "response"
    THEN Checked(FALSE, "Error checking URL")
    ELSE IF 200 <= probe.status /\ probe.status <= 400
    THEN Checked(TRUE, "")
    ELSE Checked(FALSE, "URL not accessible")

\* url_validator.py lines 71-99
check_accessibility(probe) ==
    IF probe.kind = "Timeout"
    THEN Checked(FALSE, "Request timeout: URL took too long to respond")
    ELSE IF probe.kind = "ConnectionError"
    THEN Checked(FALSE, "Connection error: Unable to reach URL")
    ELSE IF probe.kind = "TooManyRedirects"
    THEN Checked(FALSE, "Too many redirects")
    ELSE IF probe.kind # "response"
    THEN Checked(FALSE, "Error checking URL")
    ELSE IF 200 <= probe.status /\ probe.status < 400
    THEN Checked(TRUE, "")
    ELSE Checked(FALSE, "URL not accessible")

\* url_validator.py lines 101-122
validate(url, probe) ==
    LET format == validate_url_format(url)
    IN  IF ~format.ok THEN format ELSE check_accessibility(probe)

(* Calls of the validator *)

\* the urls validate is called with: texts with and without a scheme, a
\* host, a local host
ValidateUrls ==
    { <<>>,
      <<"h", "t", "t", "p", ":", "/", "/", "a", ".", "i", "o", "/", "x">>,
      <<"h", "t", "t", "p", "s", ":", "/", "/", "b", ".", "i", "o", "/">>,
      <<"H", "T", "T", "P", ":", "/", "/", "a", ".", "i", "o">>,
      <<"f", "t", "p", ":", "/", "/", "a", ".", "i", "o", "/">>,
      <<"a", ".", "i", "o">>,
      <<"h", "t", "t", "p", ":", "/", "/">>,
      <<"h", "t", "t", "p", ":", "/", "/", "l", "o", "c", "a", "l", "h", "o",
        "s", "t", "/", "x">>,
      <<"h", "t", "t", "p", ":", "/", "/", "L", "o", "c", "a", "l", "h", "o",
        "s", "t">>,
      <<"h", "t", "t", "p", ":", "/", "/", "1", "2", "7", ".", "0", ".", "0",
        ".", "1", ":", "8", "0">>,
      <<"h", "t", "t", "p", ":", "/", "/", "0", ".", "0", ".", "0", ".", "0",
        "/">>,
      <<"h", "t", "t", "p", ":", "/", "/", "a", ".", "i", "o", "/", "l", "o",
        "c", "a", "l", "h", "o", "s", "t">> }

\* what the HEAD request meets: a status below, at and above the limits of
\* line 85, and each exception of lines 91-99
ValidateProbes ==
    { ProbeAnswers(199), ProbeAnswers(StatusOk), ProbeAnswers(301),
      ProbeAnswers(399), ProbeAnswers(400), ProbeAnswers(404),
      ProbeAnswers(500), ProbeFails("Timeout"), ProbeFails("ConnectionError"),
      ProbeFails("TooManyRedirects"), ProbeFails("OSError") }

NoCheck == [status |-> "none", ok |-> FALSE, error |-> ""]

\* return is_valid, error_message
Pair(checked) == [status |-> "returned", ok |-> checked.ok, error |-> checked.error]

ValidateIdle ==
    /\ vpc = "idle"
    /\ vurl = <<>>
    /\ vprobe = ProbeFails("none")
    /\ vout = NoCheck

ValidateInit ==
    /\ vpc = "format"
    /\ vurl \in ValidateUrls
    /\ vprobe \in ValidateProbes
    /\ vout = NoCheck

\* mutant: the accessibility is checked although the format is refused
FormatRefused_Probed ==
    /\ vpc = "format"
    /\ ~validate_url_format(vurl).ok
    /\ vpc' = "probe"
    /\ UNCHANGED <<vurl, vprobe, vout, besidesValidate>>

\* lines 112-114: the format is refused and validate returns
FormatRefused ==
    /\ vpc = "format"
    /\ \E format \in {validate_url_format(vurl)} :
          /\ ~format.ok
          /\ vout' = Pair(format)
    /\ vpc' = "done"
    /\ UNCHANGED <<vurl, vprobe, besidesValidate>>

\* lines 112-113: the format is accepted
FormatAccepted ==
    /\ vpc = "format"
    /\ validate_url_format(vurl).ok
    /\ vpc' = "probe"
    /\ UNCHANGED <<vurl, vprobe, vout, besidesValidate>>

\* lines 117-119: the url is not accessible
ProbeRefused ==
    /\ vpc = "probe"
    /\ \E access \in {check_accessibility(vprobe)} :
          /\ ~access.ok
          /\ vout' = Pair(access)
    /\ vpc' = "done"
    /\ UNCHANGED <<vurl, vprobe, besidesValidate>>

\* lines 117-122: the url is accessible
ProbeAccepted ==
    /\ vpc = "probe"
    /\ check_accessibility(vprobe).ok
    /\ vout' = Pair(Checked(TRUE, ""))
    /\ vpc' = "done"
    /\ UNCHANGED <<vurl, vprobe, besidesValidate>>

----------------------------------------------------------------------------
(* The stages between extraction and generation: text_cleaner.py,          *)
(* keyword_extractor.py, topic_analyzer.py, prompt_builder.py.  The texts   *)
(* of the model hold no URL, no e-mail address, no capital letter and no    *)
(* word of the intent patterns, so remove_urls and remove_emails leave them *)
(* as they are, extract_main_entities finds nothing and detect_intent       *)
(* returns its default.                                                     *)

\* text_cleaner.py line 23: the punctuation kept
Punctuation == {".", ",", "!", "?", ";", ":", "'", "\"", "-"}

\* text_cleaner.py line 23: [\w\s.,!?;:'"-] is kept
Kept(c) ==
    \/ IsLetter(c) \/ c \in Digits \/ c = "_"
    \/ c \in PyWhitespace
    \/ c \in Punctuation

\* text_cleaner.py lines 39-49
remove_special_characters(text) == SelectSeq(text, Kept)

\* text_cleaner.py line 35: every run of whitespace becomes one space
RECURSIVE CollapseFrom(_, _)
CollapseFrom(s, i) ==
    IF i > Len(s) THEN <<>>
    ELSE IF s[i] \in PyWhitespace
         THEN <<" ">> \o CollapseFrom(s, SkipSpace(s, i))
         ELSE <<s[i]>> \o CollapseFrom(s, i + 1)

\* text_cleaner.py lines 33-37
normalize_whitespace(text) == Strip(CollapseFrom(text, 1))

\* text_cleaner.py lines 66-98
clean(text) ==
    IF text = <<>> THEN <<>>
    ELSE Strip(normalize_whitespace(remove_special_characters(text)))

\* keyword_extractor.py line 50: shorter texts give no keywords
MinKeywordText == 50

\* keyword_extractor.py line 96
MaxPrimary == 5

\* keyword_extractor.py line 97
MaxSecondary == 10

\* a keyword of the keyword model; primary is whether its score reaches
\* the threshold of line 90
Scored(word, primary) == [word |-> word, primary |-> primary]

WordsOf(scored) == [k \in DOMAIN scored |-> scored[k].word]

\* keyword_extractor.py lines 49-69
extract_keywords(text, found) ==
    IF text = <<>> \/ Len(Strip(text)) < MinKeywordText THEN <<>> ELSE found

\* keyword_extractor.py lines 130-168
extract_and_categorize(text, found) ==
    [primary_keywords |->
        Prefix(WordsOf(SelectSeq(extract_keywords(text, found),
                                 LAMBDA k : k.primary)), MaxPrimary),
     secondary_keywords |->
        Prefix(WordsOf(SelectSeq(extract_keywords(text, found),
                                 LAMBDA k : ~k.primary)), MaxSecondary)]

\* topic_analyzer.py line 95: shorter sentences are left out of the summary
MinSentence == 20

\* topic_analyzer.py line 81
MaxSentences == 3

\* topic_analyzer.py line 38
MaxTopics == 5

SentenceEnds == {".", "!", "?"}

\* topic_analyzer.py line 94: re.split(r'[.!?]+', text)
RECURSIVE SplitSentences(_, _, _)
SplitSentences(s, i, current) ==
    IF i > Len(s) THEN <<current>>
    ELSE IF s[i] \in SentenceEnds
         THEN IF i > 1 /\ s[i - 1] \in SentenceEnds
              THEN SplitSentences(s, i + 1, current)
              ELSE <<current>> \o SplitSentences(s, i + 1, <<>>)
         ELSE SplitSentences(s, i + 1, Append(current, s[i]))

RECURSIVE JoinSentences(_)
JoinSentences(sentences) ==
    IF sentences = <<>> THEN <<>>
    ELSE IF Len(sentences) = 1 THEN Head(sentences)
    ELSE Head(sentences) \o <<".", " ">> \o JoinSentences(Tail(sentences))

StrippedAll(texts) == [k \in DOMAIN texts |-> Strip(texts[k])]

\* topic_analyzer.py lines 93-106
generate_summary(text) ==
    LET sentences == SelectSeq(StrippedAll(SplitSentences(text, 1, <<>>)),
                               LAMBDA t : Len(t) > MinSentence)
    IN  IF sentences = <<>> THEN <<>>
        ELSE JoinSentences(Prefix(sentences, MaxSentences)) \o <<".">>

\* topic_analyzer.py lines 131-164
analyze(text, title, keywords) ==
    [summary |-> generate_summary(text),
     intent |-> "informational",
     topics |-> IF keywords # <<>> THEN Prefix(keywords, MaxTopics) ELSE <<>>,
     content_length |-> Len(text)]

\* ", ".join(words)
RECURSIVE JoinCommas(_)
JoinCommas(words) ==
    IF words = <<>> THEN <<>>
    ELSE IF Len(words) = 1 THEN words
    ELSE <<Head(words), ", ">> \o JoinCommas(Tail(words))

\* prompt_builder.py lines 74-76
format_keywords(keywords) ==
    IF keywords # <<>> THEN JoinCommas(keywords) ELSE <<"N/A">>

RECURSIVE Bullets(_)
Bullets(topics) ==
    IF topics = <<>> THEN <<>>
    ELSE IF Len(topics) = 1 THEN <<"- ", Head(topics)>>
    ELSE <<"- ", Head(topics), "\n">> \o Bullets(Tail(topics))

\* prompt_builder.py lines 78-82
format_topics(topics) ==
    IF topics = <<>> THEN <<"- General content">> ELSE Bullets(topics)

\* prompt_builder.py lines 96-101
calculate_keyword_density_target(word_count) ==
    IF word_count < 500 THEN "2.0"
    ELSE IF word_count < 1000 THEN "1.5"
    ELSE "1.0"

\* str(word_count)
RECURSIVE Decimal(_)
Decimal(n) ==
    IF n < 10 THEN << <<"0", "1", "2", "3", "4", "5", "6", "7", "8", "9">>[n + 1] >>
    ELSE Decimal(n \div 10)
         \o << <<"0", "1", "2", "3", "4", "5", "6", "7", "8", "9">>[(n % 10) + 1] >>

\* prompt_builder.py lines 17-69 and 133-148: the template with the fields
\* filled in; a fixed stretch of the template is one token, named by its
\* first or last words
build_prompt(url, title, summary, intent, primary_keywords, secondary_keywords, topics, tone, word_count) ==
    <<"You are an expert SEO content writer. Generate a high-quality, original blog post based on the following information:\n\n**SOURCE INFORMATION:**\n",
      "Website URL: ">> \o url
    \o <<"\nWebsite Title: ">> \o (IF title # <<>> THEN title ELSE <<"N/A">>)
    \o <<"\nWebsite Summary: ">>
    \o (IF summary # <<>> THEN summary ELSE <<"No summary available">>)
    \o <<"\nWebsite Intent: ", intent, "\n\n**SEO KEYWORDS:**\nPrimary Keywords: ">>
    \o format_keywords(primary_keywords)
    \o <<"\nSecondary Keywords: ">> \o format_keywords(secondary_keywords)
    \o <<"\n\n**MAIN TOPICS:**\n">> \o format_topics(topics)
    \o <<"\n\n**BLOG REQUIREMENTS:**\n- Tone: ", tone, "\n- Target Word Count: ">>
    \o Decimal(word_count)
    \o <<" words\n", "4. Use the primary keywords ",
         calculate_keyword_density_target(word_count),
         "% throughout the content\n",
         "**OUTPUT FORMAT:**\n- Return a JSON object with the following structure:\n",
         "{\n",
         "    \"", "title", KeyEnd, "\"Blog post title (H1)\",\n",
         "    \"", "meta_description", KeyEnd, "\"SEO meta description (150-160 chars)\",\n",
         "    \"", "introduction", KeyEnd, "\"Opening paragraph(s)\",\n",
         "    \"", "sections", KeyEnd, "[\n",
         "        {\"", "heading", KeyEnd, "\"Section heading (H2)\", \"",
             "content", KeyEnd, "\"Section content\"},\n",
         "        {\"", "heading", KeyEnd, "\"Another heading (H2)\", \"",
             "content", KeyEnd, "\"Section content\"}\n",
         "    ],\n",
         "    \"", "conclusion", KeyEnd, "\"Closing paragraph(s)\",\n",
         "    \"", "cta", KeyEnd, "\"Call-to-action\",\n",
         "    \"", "tags", KeyEnd, "[\"tag1\", \"tag2\", \"tag3\"]\n",
         "}">>

----------------------------------------------------------------------------
(* The stages after generation: seo_postprocessor.py and the response      *)
(* model BlogContent, models.py lines 60-73.                                *)

IsObject(v) == v.t = "object"

IsArray(v) == v.t = "array"

IsString(v) == v.t = "string"

\* key in data, for a parsed object
HasKey(data, key) == \E k \in DOMAIN data.items : data.items[k].s = key

\* data[key]
Get(data, key) ==
    data.items[CHOOSE k \in DOMAIN data.items : data.items[k].s = key].items[1]

KeyTitle == <<"t", "i", "t", "l", "e">>

KeyMetaDescription ==
    <<"m", "e", "t", "a", "_", "d", "e", "s", "c", "r", "i", "p", "t", "i",
      "o", "n">>

KeyIntroduction ==     <<"i", "n", "t", "r", "o", "d", "u", "c", "t", "i", "o", "n">>

KeySections == <<"s", "e", "c", "t", "i", "o", "n", "s">>

KeyConclusion == <<"c", "o", "n", "c", "l", "u", "s", "i", "o", "n">>

KeyCta == <<"c", "t", "a">>

KeyTags == <<"t", "a", "g", "s">>

KeyHeading == <<"h", "e", "a", "d", "i", "n", "g">>

KeyContent == <<"c", "o", "n", "t", "e", "n", "t">>

\* models.py lines 63-71: the fields of an article
SchemaFields ==
    {KeyTitle, KeyMetaDescription, KeyIntroduction, KeySections,
     KeyConclusion, KeyCta, KeyTags}

\* a field that is absent, or a string: what ' '.join accepts, lines 42-53
AbsentOrString(data, key) == HasKey(data, key) => IsString(Get(data, key))

\* seo_postprocessor.py lines 49-51: the loop over blog_data.get('sections',
\* []) goes through a list of objects; an empty string or object has nothing
\* to go through
SectionsReadable(sections) ==
    \/ /\ IsArray(sections)
       /\ \A k \in DOMAIN sections.items :
             /\ IsObject(sections.items[k])
             /\ AbsentOrString(sections.items[k], KeyHeading)
             /\ AbsentOrString(sections.items[k], KeyContent)
    \/ (IsString(sections) /\ sections.s = <<>>)
    \/ (IsObject(sections) /\ sections.items = <<>>)

\* seo_postprocessor.py lines 197-262: process returns for an object whose
\* text fields can be joined and measured, and raises AttributeError or
\* TypeError for anything else
ProcessReturns(blog_data) ==
    /\ IsObject(blog_data)
    /\ AbsentOrString(blog_data, KeyTitle)
    /\ AbsentOrString(blog_data, KeyIntroduction)
    /\ AbsentOrString(blog_data, KeyConclusion)
    /\ HasKey(blog_data, KeySections) =>
          SectionsReadable(Get(blog_data, KeySections))
    /\ HasKey(blog_data, KeyMetaDescription) =>
          Get(blog_data, KeyMetaDescription).t \in {"string", "array", "object"}

RequiredString(data, key) == HasKey(data, key) /\ IsString(Get(data, key))

\* mutant: the tags of an article are optional
BlogContentValid_TagsOptional(blog) ==
    /\ IsObject(blog)
    /\ \A key \in {KeyTitle, KeyMetaDescription, KeyIntroduction,
                   KeyConclusion, KeyCta} : RequiredString(blog, key)
    /\ HasKey(blog, KeySections)
    /\ IsArray(Get(blog, KeySections))
    /\ \A k \in DOMAIN Get(blog, KeySections).items :
          IsObject(Get(blog, KeySections).items[k])

\* models.py lines 60-73: BlogContent(**blog) accepts the dictionary
BlogContentValid(blog) ==
    /\ IsObject(blog)
    /\ \A key \in {KeyTitle, KeyMetaDescription, KeyIntroduction,
                   KeyConclusion, KeyCta} : RequiredString(blog, key)
    /\ HasKey(blog, KeySections)
    /\ IsArray(Get(blog, KeySections))
    /\ \A k \in DOMAIN Get(blog, KeySections).items :
          IsObject(Get(blog, KeySections).items[k])
    /\ HasKey(blog, KeyTags)
    /\ IsArray(Get(blog, KeyTags))
    /\ \A k \in DOMAIN Get(blog, KeyTags).items :
          IsString(Get(blog, KeyTags).items[k])

----------------------------------------------------------------------------
(* generate_blog, main.py lines 103-250: one request through the stages.   *)
(* The extraction is the call of ContentExtractor.extract above and the     *)
(* generation the call of generate above: their steps are the same actions. *)

\* the stages in the order of lines 129-210
StageOrder ==
    <<"validation", "extraction", "cleaning", "keywords", "topics", "prompt",
      "generation", "images", "scoring">>

\* lines 133, 140, 146 and 179: the labels of the critical stages
ValidationLabel == "URL validation failed: "

ExtractionLabel == "Content extraction failed: "

CleaningLabel == "No usable content found after cleaning"

GenerationLabel == "Blog generation failed: "

\* line 249
InternalLabel == "Internal server error: "

NoAnalysis ==
    [summary |-> <<>>, intent |-> "", topics |-> <<>>, content_length |-> 0]

NoKeywords == [primary_keywords |-> <<>>, secondary_keywords |-> <<>>]

\* the local variables of generate_blog before line 129, and the log of the
\* image stage
NoRun ==
    [probes |-> 0, checked |-> Checked(FALSE, ""), content_data |-> NoContent,
     cleaned_text |-> <<>>, keyword_data |-> NoKeywords,
     analysis_data |-> NoAnalysis, prompt |-> <<>>, blog_data |-> NoneVal,
     featured_image |-> NoImage, additional_images |-> <<>>,
     image_log |-> <<>>]

NoResult ==
    [status |-> "none", status_code |-> 0, detail |-> <<>>, blog |-> NoneVal,
     featured_image |-> NoImage, additional_images |-> <<>>]

\* raise HTTPException(status_code, detail)
HTTPException(status_code, detail) ==
    [status |-> "raised", status_code |-> status_code, detail |-> detail,
     blog |-> NoneVal, featured_image |-> NoImage, additional_images |-> <<>>]

\* the answer to a body that is no BlogGenerationRequest: the handler is
\* not entered
Unprocessable ==
    [status |-> "rejected", status_code |-> 422, detail |-> <<"validation error">>,
     blog |-> NoneVal, featured_image |-> NoImage, additional_images |-> <<>>]

\* lines 220-241: the response
BlogGenerationResponse(blog, featured_image, additional_images) ==
    [status |-> "returned", status_code |-> StatusOk, detail |-> <<>>,
     blog |-> blog, featured_image |-> featured_image,
     additional_images |-> additional_images]

(* Requests and what they meet *)

Raw(url, tone, word_count) == [url |-> url, tone |-> tone, word_count |-> word_count]

BaseUrl == 
          <<"h", "t", "t", "p", ":", "/", "/", "a", ".", "i", "o", "/",
            "x">>

\* request bodies: one field varied at a time around a well-formed request
RawRequests ==
    { Raw(url, "", <<>>) : url \in
        { BaseUrl,
          
          <<"h", "t", "t", "p", "s", ":", "/", "/", "B", ".", "i", "o">>,
          
          <<"f", "t", "p", ":", "/", "/", "a", ".", "i", "o", "/">>,
          <<"a", ".", "i", "o">>,
          <<"h", "t", "t", "p", ":", "/", "/">>,
          
          <<"h", "t", "t", "p", ":", "/", "/", "l", "o", "c", "a", "l",
            "h", "o", "s", "t", "/", "x">>,
          
          <<"h", "t", "t", "p", ":", "/", "/", "1", "2", "7", ".", "0",
            ".", "0", ".", "1", ":", "8", "0", "0", "0", "/">>,
          
          <<"h", "t", "t", "p", ":", "/", "/", "0", ".", "0", ".", "0",
            ".", "0", "/">>,
          
          <<"h", "t", "t", "p", ":", "/", "/", "L", "O", "C", "A", "L",
            "H", "O", "S", "T", "/">>,
          
          <<"h", "t", "t", "p", ":", "/", "/", "a", ".", "i", "o", "/",
            "l", "o", "c", "a", "l", "h", "o", "s", "t">>,
          <<>> } }
    \cup { Raw(BaseUrl, tone, <<>>) : tone \in {"casual", "formal"} }
    \cup { Raw(BaseUrl, "", word_count) : word_count \in
             { <<"2", "9", "9">>, <<"3", "0", "0">>, <<"2", "0", "0", "0">>,
               <<"2", "0", "0", "1">>, <<"8", ".", "5">> } }

\* the answers to the HEAD request of check_accessibility
Probes ==
    { ProbeAnswers(StatusOk), ProbeAnswers(404), ProbeFails("Timeout"),
      ProbeFails("ConnectionError") }

\* a text of two sentences with a character the cleaner removes and without
\* a word of the intent patterns
LongText ==
    <<"s", "e", "o", " ", "t", "i", "p", "s", " ", "f", "o", "r", " ", "a",
      " ", "f", "a", "s", "t", "e", "r", " ", "s", "i", "t", "e", " ", "#",
      " ", "t", "o", "d", "a", "y", ".", " ", "w", "r", "i", "t", "e", " ",
      "s", "h", "o", "r", "t", " ", "c", "l", "e", "a", "r", " ", "w", "o",
      "r", "d", "s", " ", "e", "v", "e", "r", "y", " ", "d", "a", "y", ".">>

OnePage(article, fetch, markup) ==
    [article |-> article, fetch |-> fetch, markup |-> markup]

\* what the url leads to: an article with a long text, a page whose text
\* only the markup gives, a text the cleaner empties, and nothing
PipelinePages ==
    { OnePage(ArticleParsed(LongText), "ok", <<>>),
      OnePage(ArticleRaises("ArticleException"), "ok",
              Page(<<Element("article", <<>>, <<P(<<"a", "#">>)>>)>>)),
      OnePage(ArticleParsed(<<"#">>), "ok", <<>>),
      OnePage(ArticleRaises("ConnectionError"), "Timeout", <<>>) }

\* what the keyword model finds in a text
KeywordFinds ==
    { <<>>,
      <<Scored("seo", TRUE), Scored("tips", FALSE), Scored("site", TRUE)>> }

\* the answers of the image service within a run
PipelineServices ==
    { ServiceFails("Timeout"),
      ServiceFinds(<<Photo(1, TRUE, "Ann", <<"a", "l", "t">>)>>),
      ServiceFinds(<<Photo(4, TRUE, "None", <<>>)>>),
      ServiceFinds(<<Photo(1, TRUE, "Ann", <<"a", "l", "t">>),
                     Photo(4, TRUE, "None", <<>>)>>) }

\* image_fetcher.py lines 67-69 and 94-99: the search ends in an error that
\* fetch_images logs and turns into an empty list
LookupFailed(service, num_images) ==
    \/ service.kind # "response"
    \/ service.status # StatusOk
    \/ \E k \in 1..Min(num_images, Len(service.results)) :
          ~service.results[k].has_urls

(* The handler *)

PipelineIdle ==
    /\ rpc = "idle"
    /\ body = Raw(<<>>, "", <<>>)
    /\ request = [url |-> <<>>, tone |-> "", word_count |-> 0]
    /\ run = NoRun
    /\ trace = <<>>
    /\ answer = NoResult

PipelineInit ==
    /\ rpc = "request"
    /\ body \in RawRequests
    /\ request = [url |-> <<>>, tone |-> "", word_count |-> 0]
    /\ run = NoRun
    /\ trace = <<>>
    /\ answer = NoResult

\* line 103: the body is no BlogGenerationRequest
RequestRejected ==
    /\ rpc = "request"
    /\ ~RequestValid(body)
    /\ answer' = Unprocessable
    /\ rpc' = "done"
    /\ UNCHANGED <<body, request, run, trace, besidesRun>>

\* lines 103 and 124
RequestAccepted ==
    /\ rpc = "request"
    /\ RequestValid(body)
    /\ request' = BlogGenerationRequest(body)
    /\ rpc' = "validate"
    /\ UNCHANGED <<body, run, trace, answer, besidesRun>>

\* the HEAD requests validate sends: none when the format is refused
ProbesOf(url) == IF validate_url_format(url).ok THEN 1 ELSE 0

\* mutant: the run goes on to the extraction after a failed validation
ValidationFails_Continues ==
    /\ rpc = "validate"
    /\ \E probe \in Probes : \E checked \in {validate(request.url, probe)} :
          /\ ~checked.ok
          /\ run' = [run EXCEPT !.checked = checked,
                                !.probes = ProbesOf(request.url)]
    /\ trace' = Append(trace, "validation")
    /\ rpc' = "extract"
    /\ UNCHANGED <<body, request, answer, besidesRun>>

\* lines 131-133: the validation fails
ValidationFails ==
    /\ rpc = "validate"
    /\ \E probe \in Probes : \E checked \in {validate(request.url, probe)} :
          /\ ~checked.ok
          /\ run' = [run EXCEPT !.checked = checked,
                                !.probes = ProbesOf(request.url)]
          /\ answer' = HTTPException(400, <<ValidationLabel, checked.error>>)
    /\ trace' = Append(trace, "validation")
    /\ rpc' = "done"
    /\ UNCHANGED <<body, request, besidesRun>>

\* lines 131-132: the validation passes
ValidationPasses ==
    /\ rpc = "validate"
    /\ \E probe \in Probes : \E checked \in {validate(request.url, probe)} :
          /\ checked.ok
          /\ run' = [run EXCEPT !.checked = checked,
                                !.probes = ProbesOf(request.url)]
    /\ trace' = Append(trace, "validation")
    /\ rpc' = "extract"
    /\ UNCHANGED <<body, request, answer, besidesRun>>

\* line 138: content_extractor.extract(url) is entered
ExtractionStarts ==
    /\ rpc = "extract"
    /\ epc = "idle"
    /\ page' \in PipelinePages
    /\ epc' = "newspaper"
    /\ trace' = Append(trace, "extraction")
    /\ rpc' = "extracting"
    /\ UNCHANGED <<body, request, run, answer, max_length, content, tried, eout,
                   genVars, parseVars, imageVars, validateVars, pairVars>>

\* lines 139-140: extract raised ValueError
ExtractionFails ==
    /\ rpc = "extracting"
    /\ epc = "done"
    /\ eout.status = "raised"
    /\ answer' = HTTPException(400, <<ExtractionLabel>> \o eout.error.text)
    /\ rpc' = "done"
    /\ UNCHANGED <<body, request, run, trace, besidesRun>>

\* line 138: extract returned the document
ExtractionReturns ==
    /\ rpc = "extracting"
    /\ epc = "done"
    /\ eout.status = "returned"
    /\ run' = [run EXCEPT !.content_data = eout.content]
    /\ rpc' = "clean"
    /\ UNCHANGED <<body, request, trace, answer, besidesRun>>

\* lines 144-146: nothing is left of the text
CleaningFails ==
    /\ rpc = "clean"
    /\ \E cleaned_text \in {clean(run.content_data.text)} :
          /\ cleaned_text = <<>>
          /\ run' = [run EXCEPT !.cleaned_text = cleaned_text]
    /\ answer' = HTTPException(400, <<CleaningLabel>>)
    /\ trace' = Append(trace, "cleaning")
    /\ rpc' = "done"
    /\ UNCHANGED <<body, request, besidesRun>>

\* lines 144-145
CleaningPasses ==
    /\ rpc = "clean"
    /\ \E cleaned_text \in {clean(run.content_data.text)} :
          /\ cleaned_text # <<>>
          /\ run' = [run EXCEPT !.cleaned_text = cleaned_text]
    /\ trace' = Append(trace, "cleaning")
    /\ rpc' = "keywords"
    /\ UNCHANGED <<body, request, answer, besidesRun>>

\* line 150
KeywordsExtracted ==
    /\ rpc = "keywords"
    /\ \E found \in KeywordFinds :
          run' = [run EXCEPT !.keyword_data =
                               extract_and_categorize(run.cleaned_text, found)]
    /\ trace' = Append(trace, "keywords")
    /\ rpc' = "topics"
    /\ UNCHANGED <<body, request, answer, besidesRun>>

\* mutant: the topics are analysed in the text as extracted
TopicsAnalyzed_Uncleaned ==
    /\ rpc = "topics"
    /\ run' = [run EXCEPT !.analysis_data =
                            analyze(run.content_data.text, run.content_data.title,
                                    run.keyword_data.primary_keywords)]
    /\ trace' = Append(trace, "topics")
    /\ rpc' = "prompt"
    /\ UNCHANGED <<body, request, answer, besidesRun>>

\* lines 154-158
TopicsAnalyzed ==
    /\ rpc = "topics"
    /\ run' = [run EXCEPT !.analysis_data =
                            analyze(run.cleaned_text, run.content_data.title,
                                    run.keyword_data.primary_keywords)]
    /\ trace' = Append(trace, "topics")
    /\ rpc' = "prompt"
    /\ UNCHANGED <<body, request, answer, besidesRun>>

\* lines 162-172
PromptBuilt ==
    /\ rpc = "prompt"
    /\ run' = [run EXCEPT !.prompt =
                 build_prompt(request.url, run.content_data.title,
                              run.analysis_data.summary, run.analysis_data.intent,
                              run.keyword_data.primary_keywords,
                              run.keyword_data.secondary_keywords,
                              run.analysis_data.topics, request.tone,
                              request.word_count)]
    /\ trace' = Append(trace, "prompt")
    /\ rpc' = "generate"
    /\ UNCHANGED <<body, request, answer, besidesRun>>

\* line 177: blog_generator.generate(prompt) is entered
GenerationStarts ==
    /\ rpc = "generate"
    /\ pc = "idle"
    /\ prompt' = run.prompt
    /\ pc' = "attempt"
    /\ stage' = "initial"
    /\ attempt' = 1
    /\ invocations' = invocations + 1
    /\ trace' = Append(trace, "generation")
    /\ rpc' = "generating"
    /\ UNCHANGED <<body, request, run, answer, physical, sent, failures, delays,
                   response, repaired, parses, outcome, parseVars, extractVars,
                   imageVars, validateVars, pairVars>>

\* mutant: the failure of the generation is reported as an internal error
GenerationFails_Generic ==
    /\ rpc = "generating"
    /\ pc = "raised"
    /\ answer' = HTTPException(500, <<InternalLabel>> \o outcome.error.text)
    /\ rpc' = "done"
    /\ UNCHANGED <<body, request, run, trace, besidesRun>>

\* lines 178-179: generate raised
GenerationFails ==
    /\ rpc = "generating"
    /\ pc = "raised"
    /\ answer' = HTTPException(500, <<GenerationLabel>> \o outcome.error.text)
    /\ rpc' = "done"
    /\ UNCHANGED <<body, request, run, trace, besidesRun>>

\* line 177: generate returned the data
GenerationReturns ==
    /\ rpc = "generating"
    /\ pc = "returned"
    /\ run' = [run EXCEPT !.blog_data = outcome.v]
    /\ rpc' = "images"
    /\ UNCHANGED <<body, request, trace, answer, besidesRun>>

\* lines 186 and 204-205: no access key, no image is asked for
ImagesSkipped ==
    /\ rpc = "images"
    /\ unsplash_access_key = ""
    /\ trace' = Append(trace, "images")
    /\ rpc' = "score"
    /\ UNCHANGED <<body, request, run, answer, besidesRun>>

\* lines 186-193 and 202-203: the featured image; an ImageData that cannot
\* be built ends the image stage
FeaturedImageFetched ==
    /\ rpc = "images"
    /\ unsplash_access_key # ""
    /\ \E service \in PipelineServices :
       \E img \in {get_featured_image(unsplash_access_key,
                                      run.keyword_data.primary_keywords, service)} :
          IF img # NoImage /\ ~ImageDataValid(img)
          THEN /\ run' = [run EXCEPT !.image_log = Append(@, "featured record")]
               /\ rpc' = "score"
          ELSE /\ run' = [run EXCEPT
                            !.featured_image = img,
                            !.image_log =
                                IF LookupFailed(service, FeaturedImages)
                                THEN Append(@, "featured lookup") ELSE @]
               /\ rpc' = "additional"
    /\ isent' = isent \o RequestsOf(unsplash_access_key,
                                    run.keyword_data.primary_keywords,
                                    FeaturedImages)
    /\ trace' = Append(trace, "images")
    /\ UNCHANGED <<body, request, answer, ipc, unsplash_access_key, icall, iout,
                   genVars, parseVars, extractVars,
                   validateVars, pairVars>>

\* mutant: the records built before the one that fails are kept
AdditionalImagesFetched_Partial ==
    /\ rpc = "additional"
    /\ \E service \in PipelineServices :
       \E images \in {fetch_images(unsplash_access_key,
                                   run.keyword_data.primary_keywords,
                                   AdditionalImages, service)} :
          run' = [run EXCEPT
                    !.additional_images = SelectSeq(images, ImageDataValid),
                    !.image_log =
                        IF \E k \in DOMAIN images : ~ImageDataValid(images[k])
                        THEN Append(@, "additional record")
                        ELSE IF LookupFailed(service, AdditionalImages)
                        THEN Append(@, "additional lookup") ELSE @]
    /\ isent' = isent \o RequestsOf(unsplash_access_key,
                                    run.keyword_data.primary_keywords,
                                    AdditionalImages)
    /\ rpc' = "score"
    /\ UNCHANGED <<body, request, trace, answer, ipc, unsplash_access_key, icall,
                   iout, genVars, parseVars, extractVars,
                   validateVars, pairVars>>

\* lines 196-203: the images for the sections; an ImageData that cannot be
\* built leaves the list empty
AdditionalImagesFetched ==
    /\ rpc = "additional"
    /\ \E service \in PipelineServices :
       \E images \in {fetch_images(unsplash_access_key,
                                   run.keyword_data.primary_keywords,
                                   AdditionalImages, service)} :
          run' = [run EXCEPT
                    !.additional_images =
                        IF \A k \in DOMAIN images : ImageDataValid(images[k])
                        THEN images ELSE <<>>,
                    !.image_log =
                        IF \E k \in DOMAIN images : ~ImageDataValid(images[k])
                        THEN Append(@, "additional record")
                        ELSE IF LookupFailed(service, AdditionalImages)
                        THEN Append(@, "additional lookup") ELSE @]
    /\ isent' = isent \o RequestsOf(unsplash_access_key,
                                    run.keyword_data.primary_keywords,
                                    AdditionalImages)
    /\ rpc' = "score"
    /\ UNCHANGED <<body, request, trace, answer, ipc, unsplash_access_key, icall,
                   iout, genVars, parseVars, extractVars,
                   validateVars, pairVars>>

\* lines 210 and 245-250: seo_postprocessor.process raises
ScoringFails ==
    /\ rpc = "score"
    /\ ~ProcessReturns(run.blog_data)
    /\ answer' = HTTPException(500, <<InternalLabel, "AttributeError">>)
    /\ trace' = Append(trace, "scoring")
    /\ rpc' = "done"
    /\ UNCHANGED <<body, request, run, besidesRun>>

\* lines 210-214
ScoringPasses ==
    /\ rpc = "score"
    /\ ProcessReturns(run.blog_data)
    /\ trace' = Append(trace, "scoring")
    /\ rpc' = "respond"
    /\ UNCHANGED <<body, request, run, answer, besidesRun>>

\* lines 222 and 245-250: BlogContent(**blog) raises
ResponseFails ==
    /\ rpc = "respond"
    /\ ~BlogContentValid(run.blog_data)
    /\ answer' = HTTPException(500, <<InternalLabel, "ValidationError">>)
    /\ rpc' = "done"
    /\ UNCHANGED <<body, request, run, trace, besidesRun>>

\* lines 220-241
Responds ==
    /\ rpc = "respond"
    /\ BlogContentValid(run.blog_data)
    /\ answer' = BlogGenerationResponse(run.blog_data, run.featured_image,
                                        run.additional_images)
    /\ rpc' = "done"
    /\ UNCHANGED <<body, request, run, trace, besidesRun>>

\* what the stages make of a document, of what the keyword model finds in
\* it and of the request: the text cleaned, the keywords of the cleaned
\* text, the analysis of the cleaned text, and the prompt built from them
StagesOf(content_data, found, req) ==
    LET cleaned_text == clean(content_data.text)
        keyword_data == extract_and_categorize(cleaned_text, found)
        analysis_data == analyze(cleaned_text, content_data.title,
                                 keyword_data.primary_keywords)
    IN  [cleaned_text |-> cleaned_text,
         keyword_data |-> keyword_data,
         analysis_data |-> analysis_data,
         prompt |-> build_prompt(req.url, content_data.title,
                                 analysis_data.summary, analysis_data.intent,
                                 keyword_data.primary_keywords,
                                 keyword_data.secondary_keywords,
                                 analysis_data.topics, req.tone,
                                 req.word_count)]

----------------------------------------------------------------------------
(* Two requests at once.  The components are the instances of main.py lines *)
(* 64-72, made once for the process; their fields are set in __init__ and   *)
(* read by every request: ContentExtractor.max_length and the access key of *)
(* the image fetcher are the ones a stage reads.  What a request works on   *)
(* is in the local variables of its call of generate_blog.  A stage of a    *)
(* request is one step; the steps of the two requests interleave freely,    *)
(* which covers the orders in which one event loop, threads or worker       *)
(* processes can run them.                                                  *)

\* the requests of the two runs
PairRequests ==
    { BlogGenerationRequest(raw) :
        raw \in { Raw(BaseUrl, "", <<>>), Raw(BaseUrl, "casual", <<"3", "0", "0">>) } }

PairProbes == { ProbeAnswers(StatusOk), ProbeAnswers(404) }

\* what the urls lead to: an article, a page whose text only the markup
\* gives, and nothing
PairPages == { p \in PipelinePages : p.article.text # <<"#">> }

\* what the keyword model finds
PairFinds == { found \in KeywordFinds : found # <<>> }

\* what an invocation of the provider ends in: a text, or the error of its
\* last attempt
Answers(text) == [kind |-> "text", text |-> text]

Down(e) == [kind |-> e, text |-> <<>>]

PairReplies == { Answers(Article), Answers(<<"s", "o", "r", "r", "y">>), Down("Timeout") }

PairServices ==
    { ServiceFails("Timeout"),
      ServiceFinds(<<Photo(1, TRUE, "Ann", <<"a", "l", "t">>)>>) }

PairServiceSeqs ==
    { <<a>> : a \in PairServices }
    \cup { <<a, b>> : a \in PairServices, b \in PairServices }

\* settings.unsplash_access_key of the process
PairKey == "key"

\* a step that calls nothing outside the process
Nothing == [kind |-> "nothing"]

\* content_extractor.py lines 158-174: extract as one call
extract(p, limit) ==
    LET first == extract_with_newspaper(p.article)
        c == IF NoText(first) THEN extract_with_beautifulsoup(p.fetch, p.markup)
             ELSE first
    IN  IF NoText(c)
        THEN [status |-> "raised", content |-> NoContent, error |-> ExtractionError]
        ELSE [status |-> "returned",
              content |-> [c EXCEPT !.text = Truncate(c.text, limit)],
              error |-> NoError]

\* blog_generator.py lines 193-211: generate as one call, on what its
\* invocations of the provider end in
generate(replies) ==
    LET first == replies[1]
    IN  IF first.kind # "text" THEN Raised(Error(first.kind, <<>>, 0, 0), <<>>)
        ELSE IF Parse(first.text).ok THEN Parse(first.text)
        ELSE IF replies[2].kind # "text"
             THEN Raised(Error(replies[2].kind, <<>>, 0, 0), <<>>)
             ELSE Parse(replies[2].text)

\* the invocations generate makes: a second one when the first text does
\* not parse
Invoked(replies) ==
    Len(replies) =
        IF replies[1].kind = "text" /\ ~Parse(replies[1].text).ok THEN 2 ELSE 1

PairReplySeqs ==
    { r \in { <<a>> : a \in PairReplies }
              \cup { <<a, b>> : a \in PairReplies, b \in PairReplies } : Invoked(r) }

\* the calls of the components on what the two requests can meet,
\* tabulated: validate, extract with the maximum length of the process,
\* clean, and the stages up to the prompt
PairChecked ==
    [req \in PairRequests, probe \in PairProbes |-> validate(req.url, probe)]

PairExtracted ==
    [p \in PairPages, limit \in {max_content_length} |-> extract(p, limit)]

PairDocuments ==
    { d \in { PairExtracted[p, max_content_length].content : p \in PairPages } :
        ~NoText(d) }

PairCleaned == [d \in PairDocuments |-> clean(d.text)]

PairStages ==
    [d \in PairDocuments, found \in PairFinds, req \in PairRequests |->
        StagesOf(d, found, req)]

\* generate on the replies, the two calls of the image fetcher with the
\* access key of the process, and scoring with the response model
PairGenerated == [replies \in PairReplySeqs |-> generate(replies)]

PairKeywords ==
    { PairStages[d, found, req].keyword_data.primary_keywords :
        d \in PairDocuments, found \in PairFinds, req \in PairRequests }

PairFeatured ==
    [key \in {PairKey}, keywords \in PairKeywords, service \in PairServices |->
        get_featured_image(key, keywords, service)]

PairAdditional ==
    [key \in {PairKey}, keywords \in PairKeywords, service \in PairServices |->
        fetch_images(key, keywords, AdditionalImages, service)]

PairBlogs == {NoneVal} \cup { PairGenerated[replies].v : replies \in PairReplySeqs }

PairScored ==
    [blog \in PairBlogs |->
        [processed |-> ProcessReturns(blog), valid |-> BlogContentValid(blog)]]

\* an ImageData cannot be built of the record
Unbuildable(img) == img # NoImage /\ ~ImageDataValid(img)

\* main.py lines 124-129: the local variables of a call of generate_blog on
\* entry, with the stage it is at and what its calls have received
Enter(req) ==
    [at |-> "validate", req |-> req, received |-> <<>>,
     content_data |-> NoContent, cleaned_text |-> <<>>,
     keyword_data |-> NoKeywords, analysis_data |-> NoAnalysis,
     prompt |-> <<>>, blog_data |-> NoneVal, featured_image |-> NoImage,
     additional_images |-> <<>>, answer |-> NoResult]

Ends(f, result) == [f EXCEPT !.at = "done", !.answer = result]

\* lines 131-133
AfterValidation(f, probe) ==
    LET g == [f EXCEPT !.received = Append(@, probe)]
    IN  CHOOSE after \in
            { IF checked.ok THEN [g EXCEPT !.at = "extract"]
              ELSE Ends(g, HTTPException(400, <<ValidationLabel, checked.error>>)) :
              checked \in {PairChecked[f.req, probe]} } : TRUE

\* lines 137-140
AfterExtraction(f, p, limit) ==
    LET g == [f EXCEPT !.received = Append(@, p)]
    IN  CHOOSE after \in
            { IF out.status = "raised"
              THEN Ends(g, HTTPException(400, <<ExtractionLabel>> \o out.error.text))
              ELSE [g EXCEPT !.content_data = out.content, !.at = "clean"] :
              out \in {PairExtracted[p, limit]} } : TRUE

\* lines 144-146
AfterCleaning(f) ==
    LET g == [f EXCEPT !.received = Append(@, Nothing),
                       !.cleaned_text = PairCleaned[f.content_data]]
    IN  IF g.cleaned_text = <<>> THEN Ends(g, HTTPException(400, <<CleaningLabel>>))
        ELSE [g EXCEPT !.at = "analyse"]

\* lines 150-172: the keywords, the topics and the prompt
AfterAnalysis(f, found) ==
    CHOOSE after \in
        { [f EXCEPT !.received = Append(@, found),
                    !.keyword_data = stages.keyword_data,
                    !.analysis_data = stages.analysis_data,
                    !.prompt = stages.prompt,
                    !.at = "generate"] :
          stages \in {PairStages[f.content_data, found, f.req]} } : TRUE

\* lines 176-179
AfterGeneration(f, replies) ==
    LET g == [f EXCEPT !.received = Append(@, replies)]
    IN  CHOOSE after \in
            { IF out.ok THEN [g EXCEPT !.blog_data = out.v, !.at = "images"]
              ELSE Ends(g, HTTPException(500, <<GenerationLabel>> \o out.error.text)) :
              out \in {PairGenerated[replies]} } : TRUE

\* the calls of the image service: the images for the sections are not
\* asked for when the record of the featured image cannot be built
Searched(f, services, key) ==
    Len(services) =
        IF Unbuildable(PairFeatured[key, f.keyword_data.primary_keywords, services[1]])
        THEN 1 ELSE 2

\* lines 186-205
AfterImages(f, services, key) ==
    LET g == [f EXCEPT !.received = Append(@, services), !.at = "respond"]
    IN  CHOOSE after \in
            { IF Unbuildable(img) THEN g
              ELSE CHOOSE with \in
                     { [g EXCEPT !.featured_image = img,
                                 !.additional_images =
                                     IF \A k \in DOMAIN images : ImageDataValid(images[k])
                                     THEN images ELSE <<>>] :
                       images \in {PairAdditional[key, f.keyword_data.primary_keywords,
                                                  services[2]]} } : TRUE :
              img \in {PairFeatured[key, f.keyword_data.primary_keywords,
                                    services[1]]} } : TRUE

\* lines 209-250
AfterScoring(f) ==
    LET g == [f EXCEPT !.received = Append(@, Nothing)]
    IN  CHOOSE after \in
            { IF ~scored.processed
              THEN Ends(g, HTTPException(500, <<InternalLabel, "AttributeError">>))
              ELSE IF ~scored.valid
              THEN Ends(g, HTTPException(500, <<InternalLabel, "ValidationError">>))
              ELSE Ends(g, BlogGenerationResponse(f.blog_data, f.featured_image,
                                                  f.additional_images)) :
              scored \in {PairScored[f.blog_data]} } : TRUE

\* mutant: blog_data is a name of the module, and a stage reads in it what
\* the first request has put there
Local_Shared(i) == [runs[i] EXCEPT !.blog_data = runs[1].blog_data]

\* the local variables a stage of request i works on
Local(i) == runs[i]

PairIdle == runs = <<>>

PairInit == runs \in [1..2 -> { Enter(req) : req \in PairRequests }]

PairValidates(i) ==
    /\ runs[i].at = "validate"
    /\ \E probe \in PairProbes :
          runs' = [runs EXCEPT ![i] = AfterValidation(Local(i), probe)]
    /\ UNCHANGED besidesPair

PairExtracts(i) ==
    /\ runs[i].at = "extract"
    /\ \E p \in PairPages :
          runs' = [runs EXCEPT ![i] = AfterExtraction(Local(i), p, max_length)]
    /\ UNCHANGED besidesPair

PairCleans(i) ==
    /\ runs[i].at = "clean"
    /\ runs' = [runs EXCEPT ![i] = AfterCleaning(Local(i))]
    /\ UNCHANGED besidesPair

PairAnalyses(i) ==
    /\ runs[i].at = "analyse"
    /\ \E found \in PairFinds :
          runs' = [runs EXCEPT ![i] = AfterAnalysis(Local(i), found)]
    /\ UNCHANGED besidesPair

PairGenerates(i) ==
    /\ runs[i].at = "generate"
    /\ \E replies \in PairReplySeqs :
          runs' = [runs EXCEPT ![i] = AfterGeneration(Local(i), replies)]
    /\ UNCHANGED besidesPair

PairFetchesImages(i) ==
    /\ runs[i].at = "images"
    /\ \E services \in PairServiceSeqs :
          /\ Searched(Local(i), services, unsplash_access_key)
          /\ runs' = [runs EXCEPT ![i] =
                         AfterImages(Local(i), services, unsplash_access_key)]
    /\ UNCHANGED besidesPair

PairResponds(i) ==
    /\ runs[i].at = "respond"
    /\ runs' = [runs EXCEPT ![i] = AfterScoring(Local(i))]
    /\ UNCHANGED besidesPair

----------------------------------------------------------------------------
(* Specifications *)

Init == GenInit /\ ParseIdle /\ ExtractIdle /\ ImageIdle /\ PipelineIdle
    /\ ValidateIdle /\ PairIdle

Next ==
    \/ Generate
    \/ AttemptReturns
    \/ AttemptFails
    \/ Sleep
    \/ ParseSucceeds
    \/ FirstParseFails
    \/ SecondParseFails

Spec == Init /\ [][Next]_vars

\* every step of generate is taken once it can be: the provider answers or
\* fails, the sleep ends, the parse returns or raises
FairSpec == Spec /\ WF_vars(Next)

ParseNext == ParseReturns \/ ParseRaises

ParseSpecInit == GenInit /\ ParseInit /\ ExtractIdle /\ ImageIdle /\ PipelineIdle
    /\ ValidateIdle /\ PairIdle

ParseSpec == ParseSpecInit /\ [][ParseNext]_vars

ExtractNext ==
    \/ ExtractWithNewspaper
    \/ ExtractWithBeautifulSoup
    \/ ExtractRaises
    \/ ExtractReturns

ExtractSpecInit == GenInit /\ ParseIdle /\ ExtractInit /\ ImageIdle /\ PipelineIdle
    /\ ValidateIdle /\ PairIdle

ExtractSpec == ExtractSpecInit /\ [][ExtractNext]_vars

ImageNext == FetchImagesReturns \/ GetFeaturedImageReturns

ImageSpecInit == GenInit /\ ParseIdle /\ ExtractIdle /\ ImageInit /\ PipelineIdle
    /\ ValidateIdle /\ PairIdle

ImageSpec == ImageSpecInit /\ [][ImageNext]_vars

ValidateNext == FormatRefused \/ FormatAccepted \/ ProbeRefused \/ ProbeAccepted

ValidateSpecInit ==
    /\ GenInit /\ ParseIdle /\ ExtractIdle /\ ImageIdle /\ PipelineIdle
    /\ ValidateInit /\ PairIdle

ValidateSpec == ValidateSpecInit /\ [][ValidateNext]_vars

\* one request to generate_blog, with the steps of extract and of generate
PipelineNext ==
    \/ RequestRejected
    \/ RequestAccepted
    \/ ValidationFails
    \/ ValidationPasses
    \/ ExtractionStarts
    \/ ExtractWithNewspaper
    \/ ExtractWithBeautifulSoup
    \/ ExtractRaises
    \/ ExtractReturns
    \/ ExtractionFails
    \/ ExtractionReturns
    \/ CleaningFails
    \/ CleaningPasses
    \/ KeywordsExtracted
    \/ TopicsAnalyzed
    \/ PromptBuilt
    \/ GenerationStarts
    \/ AttemptReturns
    \/ AttemptFails
    \/ Sleep
    \/ ParseSucceeds
    \/ FirstParseFails
    \/ SecondParseFails
    \/ GenerationFails
    \/ GenerationReturns
    \/ ImagesSkipped
    \/ FeaturedImageFetched
    \/ AdditionalImagesFetched
    \/ ScoringFails
    \/ ScoringPasses
    \/ ResponseFails
    \/ Responds

\* the settings are those of the deployment: with or without an access key
PipelineSpecInit ==
    /\ GenInit
    /\ ParseIdle
    /\ ExtractIdle
    /\ ipc = "idle"
    /\ unsplash_access_key \in AccessKeys
    /\ icall = [fn |-> "none", keywords |-> <<>>, num_images |-> 0]
    /\ isent = <<>>
    /\ iout = NoImages
    /\ PipelineInit
    /\ ValidateIdle
    /\ PairIdle

PipelineSpec == PipelineSpecInit /\ [][PipelineNext]_vars

PairNext ==
    \/ \E i \in 1..2 : PairValidates(i)
    \/ \E i \in 1..2 : PairExtracts(i)
    \/ \E i \in 1..2 : PairCleans(i)
    \/ \E i \in 1..2 : PairAnalyses(i)
    \/ \E i \in 1..2 : PairGenerates(i)
    \/ \E i \in 1..2 : PairFetchesImages(i)
    \/ \E i \in 1..2 : PairResponds(i)

\* two requests have entered the handler of one process, whose components
\* hold the default maximum length and an access key
PairSpecInit ==
    /\ GenInit
    /\ ParseIdle
    /\ ExtractIdle
    /\ ipc = "idle"
    /\ unsplash_access_key = PairKey
    /\ icall = [fn |-> "none", keywords |-> <<>>, num_images |-> 0]
    /\ isent = <<>>
    /\ iout = NoImages
    /\ PipelineIdle
    /\ ValidateIdle
    /\ PairInit

PairSpec == PairSpecInit /\ [][PairNext]_vars

----------------------------------------------------------------------------
(* Claims about generate and _call_gemini *)

Finished == pc \in {"returned", "raised"}

\* the physical attempts made with the prompt p
AttemptsWith(p) == Cardinality({n \in DOMAIN sent : sent[n] = p})

NonDecreasing(seq) ==
    \A m \in DOMAIN seq : \A n \in DOMAIN seq : m <= n => seq[m] <= seq[n]

\* C1: one call of generate issues at most two logical provider invocations,
\* the initial request and at most one repair request; when the parse of the
\* repaired output fails too, generate has raised that parse error and sits
\* at two invocations.
C1_AtMostTwoInvocations ==
    /\ invocations <= 2
    /\ parses <= 2
    /\ (parses = 2 /\ ~Parse(repaired).ok) =>
          /\ pc = "raised"
          /\ outcome.status = "raised"
          /\ outcome.error = Parse(repaired).error
          /\ invocations = 2

C1_Witness ==
    /\ pc = "raised"
    /\ parses = 2
    /\ invocations = 2
    /\ physical = 4
    /\ outcome.error = InvalidJsonError

\* C2: the initial and the repair invocation both make at most 3 attempts,
\* one call of generate makes at most 6 physical attempts, and the call ends
\* (returns or raises) when every attempt returns or fails.
C2_BoundedAndTerminates ==
    /\ [](attempt <= 3 /\ AttemptsWith(prompt) <= 3 /\ physical <= 6)
    /\ <>Finished

C2_Witness ==
    /\ Finished
    /\ physical = 6
    /\ stage = "repair"

\* C3: an invocation whose every attempt fails makes exactly 3 attempts,
\* sleeps non-decreasing delays between them and raises the provider error
\* after the third.
C3_AlwaysFailingProvider ==
    /\ NonDecreasing(delays)
    /\ Len(failures) <= 3
    /\ (Len(failures) = 3) =>
          /\ pc = "raised"
          /\ outcome.error.type \in ErrorKinds
    /\ (pc = "raised" /\ outcome.error.type \in ErrorKinds) =>
          /\ AttemptsWith(prompt) = 3
          /\ Len(failures) = 3
          /\ attempt = 3
          /\ Len(delays) = 2

C3_Witness ==
    /\ pc = "raised"
    /\ outcome.error.type \in ErrorKinds
    /\ physical = 3

\* the largest attempt number the wait policy is evaluated for
MaxWaitProbe == 6

\* C4 as stated: the delays before attempts 2, 3, 4, ... are 2, 4, 8 and then
\* the cap 10, so the delay before attempt 3 is 4.
C4_DelaysDouble ==
    \A k \in DOMAIN delays : delays[k] = Min(2 ^ k, 10)

\* C4 amended: the delay before attempt k (k >= 2) is 2^(k-2) clamped to
\* [2, 10]; the delays follow 2, 2, 4, 8 and then the cap 10, so the delays
\* before attempts 2 and 3 of an invocation are both 2; no delay is below 2
\* or above 10.
C4_DelaysClamped ==
    /\ \A k \in DOMAIN delays :
          /\ delays[k] = <<2, 2>>[k]
          /\ delays[k] >= 2
          /\ delays[k] <= 10
    /\ \A n \in 1..MaxWaitProbe :
          WaitExponential(n) = IF n <= 5 THEN <<2, 2, 4, 8, 10>>[n] ELSE 10

C4_Witness ==
    /\ Len(delays) = 2
    /\ pc = "attempt"
    /\ attempt = 3

\* C5: a failure of any kind is followed by a retry while attempts remain;
\* when the third attempt fails the call raises the failure of that third
\* attempt, and a call that returned did not see a third failure.
C5_LastFailureSurfaces ==
    /\ \A n \in DOMAIN failures :
          /\ failures[n].attempt = n
          /\ failures[n].call = invocations
    /\ (Len(failures) \in 1..2) =>
          /\ pc \in {"sleep", "attempt", "parse", "returned", "raised"}
          /\ (pc = "raised" => outcome.error = InvalidJsonError)
          /\ (pc = "sleep" => attempt = Len(failures))
    /\ (Len(failures) = 3) =>
          /\ pc = "raised"
          /\ outcome.status = "raised"
          /\ outcome.error = failures[3]
          /\ outcome.v = NoneVal

C5_Witness ==
    /\ pc = "raised"
    /\ Len(failures) = 3
    /\ failures[1].type # failures[3].type
    /\ failures[2].type # failures[3].type

\* C6: the repair request follows a parse failure of the first output only;
\* a provider error of the initial invocation ends the call with no parse and
\* no repair request, and a provider error of the repair invocation ends it
\* as that provider error.
C6_OnlyParseFailureRepairs ==
    /\ (stage = "repair") =>
          /\ parses >= 1
          /\ ~Parse(response).ok
          /\ prompt = RepairPrompt(response)
    /\ (pc = "raised" /\ stage = "initial") =>
          /\ outcome.error.type \in ErrorKinds
          /\ parses = 0
          /\ invocations = 1
          /\ \A n \in DOMAIN sent : sent[n] \in Prompts
    /\ (pc = "raised" /\ stage = "repair" /\ Len(failures) = 3) =>
          /\ outcome.error = failures[3]
          /\ outcome.error.type \in ErrorKinds
          /\ parses = 1

C6_Witness ==
    /\ pc = "raised"
    /\ stage = "initial"
    /\ physical = 3
    /\ parses = 0

\* attempt k of the invocation under way returns: the k - 1 attempts before
\* it are the failed attempts 1 .. k - 1 of this invocation, each followed by
\* one delay; the return makes the k-th attempt with the prompt, adds no
\* delay and hands the text of this attempt to the parse
ReturnsAtFirstSuccess ==
    (pc = "attempt" /\ pc' = "parse") =>
        /\ attempt \in 1..MaxAttemptNumber
        /\ attempt' = attempt
        /\ invocations' = invocations
        /\ Len(failures) = attempt - 1
        /\ \A n \in DOMAIN failures :
              failures[n].call = invocations /\ failures[n].attempt = n
        /\ failures' = failures
        /\ Len(delays) = attempt - 1
        /\ delays' = delays
        /\ physical' = physical + 1
        /\ sent' = Append(sent, prompt)
        /\ Cardinality({n \in DOMAIN sent' : sent'[n] = prompt}) = attempt
        /\ Parsing' \in Outputs
        /\ IF stage = "initial" THEN repaired' = repaired
                                ELSE response' = response

\* after the return no attempt is made and no delay is slept in this
\* invocation: the text is parsed, and the only attempt that can follow is
\* the first one of the repair invocation
NothingAfterReturn ==
    pc = "parse" =>
        /\ physical' = physical
        /\ sent' = sent
        /\ Parsing = IF stage = "initial" THEN response ELSE repaired
        /\ response' = response
        /\ repaired' = repaired
        /\ \/ /\ pc' \in {"parse", "returned", "raised"}
              /\ delays' = delays
              /\ attempt' = attempt
              /\ invocations' = invocations
           \/ /\ pc' = "attempt"
              /\ invocations' = invocations + 1
              /\ attempt' = 1
              /\ delays' = <<>>

\* C32: within one provider invocation retrying stops at the first attempt
\* that succeeds: when attempt k (1 <= k <= 3) is the first to succeed,
\* exactly k attempts are made, no attempt and no delay follows it, and the
\* text returned is the output of attempt k
C32_StopsAtFirstSuccess ==
    [][ReturnsAtFirstSuccess /\ NothingAfterReturn]_vars

\* the second attempt of the initial invocation was the first to succeed:
\* two attempts, one delay, and generate has returned
C32_Witness ==
    /\ pc = "returned"
    /\ stage = "initial"
    /\ attempt = 2
    /\ physical = 2
    /\ Len(failures) = 1
    /\ delays = <<WaitExponential(1)>>
    /\ sent = <<prompt, prompt>>
    /\ Parse(response).ok

----------------------------------------------------------------------------
(* Claims about parse_json_response *)

Parsed == ppc = "done"

\* C7: a valid payload in a fenced block labelled json, with any text before
\* and after the block, is returned exactly, by strategy 1.
C7_FencedPayloadRecovered ==
    (Parsed /\ pcase.shape = "fenced") =>
        /\ pout.ok
        /\ pout.v = try_loads(pcase.payload)
        /\ pout.strategy = 1

\* C8: a valid payload surrounded by prose, the braces of the text being the
\* payload's own, is recovered, by strategy 2 when there is prose at all.
C8_ProsePayloadRecovered ==
    (Parsed /\ pcase.shape = "prose") =>
        /\ pout.ok
        /\ pout.v = try_loads(pcase.payload)
        /\ pout.strategy = IF Strip(pin) = pcase.payload THEN 1 ELSE 2

\* C9: a payload that is valid but for typographic quotation marks and one
\* trailing comma before a closing brace or bracket is recovered, by
\* strategy 3.
C9_TypographicPayloadRecovered ==
    (Parsed /\ pcase.shape = "typographic") =>
        /\ pout.ok
        /\ pout.v = try_loads(pcase.payload)
        /\ pout.strategy = 3

\* C10: a text without brace characters fails with a parse error, and a
\* failed parse carries the first 2000 characters of the original input.
C10_BracelessTextFails ==
    /\ (Parsed /\ Count("{", pin) = 0 /\ Count("}", pin) = 0) => ~pout.ok
    /\ (Parsed /\ ~pout.ok) =>
          /\ pout.error.type = "ValueError"
          /\ pout.error.text = Prefix(pin, 2000)

\* what the n-th strategy makes of the text raw
Strategy(n, raw) ==
    CASE n = 1 -> Strategy1(raw)
      [] n = 2 -> Strategy2(raw)
      [] n = 3 -> Strategy3(raw)
      [] n = 4 -> Strategy4(raw)

\* the outcome out is the one of the first strategy, in the order 1, 2, 3,
\* 4, that parses the text raw
FirstSuccess(out, raw) ==
    /\ out.ok =>
          /\ out.strategy \in 1..4
          /\ out.v # NoneVal
          /\ out.v = Strategy(out.strategy, raw)
          /\ \A m \in 1..(out.strategy - 1) : Strategy(m, raw) = NoneVal
    /\ ~out.ok => \A m \in 1..4 : Strategy(m, raw) = NoneVal

\* C23: the strategies run in the order strict parse, substring isolation,
\* normalization, balanced-brace scan, each on the same fence-stripped and
\* trimmed text; the first that parses gives the result, whatever a later
\* one would make of the text
C23_FirstStrategyWins ==
    ppc = "done" => \E raw \in {FenceStripped(pin)} : FirstSuccess(pout, raw)

\* the strict parse returned a value that is no object, while the substring
\* from the first to the last brace parses to an object
C23_Witness ==
    /\ ppc = "done"
    /\ pcase.shape = "quoted"
    /\ pout.ok
    /\ pout.strategy = 1
    /\ Strategy2(FenceStripped(pin)) = JObject(<<>>)
    /\ pout.v # JObject(<<>>)

\* the text holds a fenced block that opens with the marker open: the
\* marker, and a closing fence after it
HasBlock(open, text) ==
    Contains(open, text) /\ Contains(Fence, AfterFirst(open, text))

\* the interior of the first such block
Interior(open, text) == BeforeFirst(Fence, AfterFirst(open, text))

\* the working text as stated: the interior of the block labelled json, else
\* of the first fenced block, else the text, trimmed
WorkingText(text) ==
    Strip(IF HasBlock(JsonFence, text) THEN Interior(JsonFence, text)
          ELSE IF HasBlock(Fence, text) THEN Interior(Fence, text)
          ELSE text)

\* C24 as stated: the parser works on the interior of the fenced block
\* labelled json when the text holds one, else on the interior of the first
\* fenced block when it holds one, else on the text unchanged; trimmed
C24_FenceSelection ==
    ppc = "done" => FenceStripped(pin) = WorkingText(pin)

\* the normalization as stated: typographic quotation marks made straight,
\* the control characters other than the newline removed, the commas before
\* a closing brace or bracket removed
NormalizedKeepingNewlines(raw) ==
    DropTrailingCommas(
        SelectSeq(Replace("RSQ", "'", Replace("LSQ", "'",
                      Replace("RDQ", "\"", Replace("LDQ", "\"", raw)))),
                  LAMBDA c : c \notin (ControlChars \ {"\n"})))

\* C25 as stated: the third strategy parses the fence-stripped text with
\* its typographic quotation marks made straight, its control characters
\* except the newline removed and its commas before a closing brace or
\* bracket removed, and nothing else changed: when it gives the result, the
\* result is the strict parse of that text
C25_NormalizationKeepsNewlines ==
    (ppc = "done" /\ pout.ok /\ pout.strategy = 3) =>
        \E raw \in {FenceStripped(pin)} :
            /\ Normalized(raw) = NormalizedKeepingNewlines(raw)
            /\ pout.v = try_loads(NormalizedKeepingNewlines(raw))

\* position e of raw holds a closing brace within the window of the scan
\* that starts at the first opening brace fb, and the text from fb to e has
\* as many opening as closing braces
BalancedAt(raw, fb, e) ==
    /\ e > fb
    /\ e <= Len(raw)
    /\ e - fb < ScanWindow
    /\ raw[e] = "}"
    /\ Count("{", Slice(raw, fb, e)) = Count("}", Slice(raw, fb, e))

\* the result of the scan on raw is the parse of the balanced candidate that
\* ends at e, the first one that parses
AcceptedAt(raw, fb, e, v) ==
    /\ BalancedAt(raw, fb, e)
    /\ v # NoneVal
    /\ v = try_loads(Slice(raw, fb, e))
    /\ \A d \in (fb + 1)..(e - 1) :
          BalancedAt(raw, fb, d) => try_loads(Slice(raw, fb, d)) = NoneVal

\* C26: the balanced-brace scan starts at the first opening brace of the
\* fence-stripped text and looks at most 20,000 characters ahead; it parses
\* the candidate that ends at each closing brace where opening and closing
\* braces are as many, returns the first that parses and goes on otherwise:
\* its result is the parse of the shortest balanced candidate that parses,
\* it fails only when no balanced candidate of the window parses, and it
\* makes at most one attempt per character of the text
C26_ShortestBalancedCandidate ==
    ppc = "done" =>
        \E raw \in {FenceStripped(pin)} : \E fb \in {FindChar("{", raw)} :
            /\ (pout.ok /\ pout.strategy = 4) =>
                  /\ fb # 0
                  /\ \E e \in (fb + 1)..Len(raw) : AcceptedAt(raw, fb, e, pout.v)
            /\ ~pout.ok =>
                  \A e \in (fb + 1)..Len(raw) :
                      (fb # 0 /\ BalancedAt(raw, fb, e)) =>
                          try_loads(Slice(raw, fb, e)) = NoneVal
            /\ fb # 0 => Cardinality(Candidates(raw, fb)) <= Len(raw) - fb

\* the scan went past a balanced candidate that does not parse, the text up
\* to a closing brace inside a string, and returned the next one
C26_Witness ==
    /\ ppc = "done"
    /\ pcase.payload = BracePayload
    /\ pout.ok
    /\ pout.strategy = 4
    /\ pout.v = try_loads(BracePayload)
    /\ \E raw \in {FenceStripped(pin)} : \E fb \in {FindChar("{", raw)} :
          \E d \in (fb + 1)..(fb + Len(BracePayload) - 2) :
              /\ BalancedAt(raw, fb, d)
              /\ try_loads(Slice(raw, fb, d)) = NoneVal

\* C27 as stated: whenever parse_json_response returns, the value returned
\* is an object, with or without the fields of the schema, and never a bare
\* array, string, number or boolean
C27_ReturnsObject ==
    (ppc = "done" /\ pout.ok) => pout.v.t = "object"

\* the closing brace that matches the first opening brace fb by depth: the
\* first position of the window at which as many braces have closed as have
\* opened; 0 when the depth never comes back to zero
MatchingBrace(raw, fb) ==
    IF \E e \in (fb + 1)..Len(raw) : BalancedAt(raw, fb, e)
    THEN CHOOSE e \in (fb + 1)..Len(raw) :
            /\ BalancedAt(raw, fb, e)
            /\ \A d \in (fb + 1)..(e - 1) : ~BalancedAt(raw, fb, d)
    ELSE 0

\* the single-pass depth counter in the place of lines 136-144: one strict
\* parse, of the text from the first opening brace to its matching brace
DepthScan(raw) ==
    IF FindChar("{", raw) # 0 /\ MatchingBrace(raw, FindChar("{", raw)) # 0
    THEN try_loads(Slice(raw, FindChar("{", raw),
                         MatchingBrace(raw, FindChar("{", raw))))
    ELSE NoneVal

DepthAttempts(raw) == <<Strategy1(raw), Strategy2(raw), Strategy3(raw), DepthScan(raw)>>

DepthParseRaw(raw) ==
    CHOOSE out \in {ParseStripped(attempts, raw) : attempts \in {DepthAttempts(raw)}} : TRUE

\* parse_json_response with the depth counter as its fourth attempt
DepthParse(resp) ==
    CHOOSE out \in {DepthParseRaw(raw) : raw \in {FenceStripped(resp)}} : TRUE

\* the scan of lines 136-144 went past the matching brace of the first
\* opening brace, whose candidate does not parse, and accepted the balanced
\* candidate that ends at a later closing brace
AcceptedPastMatch(raw, fb, v) ==
    /\ fb # 0
    /\ MatchingBrace(raw, fb) # 0
    /\ try_loads(Slice(raw, fb, MatchingBrace(raw, fb))) = NoneVal
    /\ \E e \in (MatchingBrace(raw, fb) + 1)..Len(raw) : AcceptedAt(raw, fb, e, v)

\* C31 as stated: with a single-pass depth counter, which parses the text
\* up to the closing brace that matches the first opening brace, in the
\* place of the balanced-brace scan, parse_json_response succeeds and fails
\* on the same texts and returns the same value
C31_Original ==
    ppc = "done" => pout = DepthParse(pin)

\* C31, amended: whenever the parser with the depth counter returns a value,
\* parse_json_response returns the same value by the same attempt, and
\* whenever parse_json_response fails, so does the parser with the depth
\* counter; the two differ only where the candidate up to the matching brace
\* does not parse: there the scan goes on and returns a later balanced
\* candidate, and the depth counter fails
C31_DepthCounterAgreesWhenItAccepts ==
    ppc = "done" =>
        \E d \in {DepthParse(pin)} :
            /\ d.ok => pout = d
            /\ ~pout.ok => pout = d
            /\ (pout.ok /\ ~d.ok) =>
                  /\ pout.strategy = 4
                  /\ d.error = InvalidJsonError
                  /\ \E raw \in {FenceStripped(pin)} :
                        AcceptedPastMatch(raw, FindChar("{", raw), pout.v)

\* the scan and the depth counter accept the same candidate: a payload
\* followed by text with one more closing brace
C31_Witness ==
    /\ ppc = "done"
    /\ pcase.shape = "scan"
    /\ pout.ok
    /\ pout.strategy = 4
    /\ pout.v = try_loads(pcase.payload)
    /\ DepthParse(pin) = pout
    /\ \E raw \in {FenceStripped(pin)} :
          MatchingBrace(raw, FindChar("{", raw)) < RFindChar("}", raw)

\* the strict parse of the text succeeds and its value is null
IsNull(text) == Loads(text).ok /\ Loads(text).v = NoneVal

\* texts of which the first or the third attempt parses the value null: the
\* literal, with whitespace, in a fenced block, and with a control character
\* that the normalization removes
NullTexts ==
    { <<"n", "u", "l", "l">>,
      <<" ", "n", "u", "l", "l", "\n">>,
      JsonFence \o <<"\n", "n", "u", "l", "l", "\n">> \o Fence,
      Fence \o <<"n", "u", "l", "l">> \o Fence \o <<"{", "}">>,
      <<"n", "u", "SOH", "l", "l">>,
      <<"n", "u", "l", "l", "DEL">> }

\* every such text holds a candidate that parses to null, and
\* parse_json_response raises on it as on a text that does not parse
NullTextsRaise ==
    \A text \in NullTexts : \E raw \in {FenceStripped(text)} :
        /\ IsNull(raw) \/ (~Loads(raw).ok /\ IsNull(Normalized(raw)))
        /\ \A n \in 1..4 : Attempts(raw)[n] = NoneVal
        /\ parse_json_response(text) = Raised(InvalidJsonError, raw)

\* the provider outputs that are the literal null
NullOutputs == { text \in Outputs : IsNull(FenceStripped(text)) }

\* no provider output is parsed to null, and the null outputs raise
OutputsNeverNull ==
    /\ \A text \in Outputs : Parse(text).ok => Parse(text).v # NoneVal
    /\ \A text \in NullOutputs : Parse(text) = Raised(InvalidJsonError, text)

\* C38: a candidate whose strict parse is the value null is treated by every
\* attempt of the parser like a candidate that does not parse:
\* parse_json_response never returns null, and a provider output that is the
\* literal null ends in the parse error, on which generate sends the repair
\* request
C38_NullIsParseFailure ==
    /\ NullTextsRaise
    /\ OutputsNeverNull
    /\ outcome.status = "returned" => outcome.v # NoneVal
    /\ (response \in NullOutputs /\ stage = "initial") =>
          (pc = "parse" /\ parses = 0)
    /\ (response \in NullOutputs /\ parses >= 1) =>
          /\ stage = "repair"
          /\ invocations = 2
          /\ prompt = RepairPrompt(response)
          /\ sent # <<>> /\ sent[1] # prompt
          /\ pc \in {"parse", "returned"} => sent[Len(sent)] = prompt
    /\ (repaired \in NullOutputs /\ parses = 2) =>
          /\ pc = "raised"
          /\ outcome.error = InvalidJsonError

\* the provider answered null, the repair request was sent with that output
\* and answered with an object, which generate returned
C38_Witness ==
    /\ pc = "returned"
    /\ response = <<"n", "u", "l", "l">>
    /\ stage = "repair"
    /\ invocations = 2
    /\ parses = 2
    /\ sent[Len(sent)] = RepairPrompt(response)
    /\ outcome.v.t = "object"

----------------------------------------------------------------------------
(* Claims about ContentExtractor.extract *)

Extracted == epc = "done"

\* the strategies run so far, in order
Tiers == [k \in DOMAIN tried |-> tried[k].tier]

BothTiers == <<"newspaper", "beautifulsoup">>

\* the text of the last strategy run, before the cut to max_length
ExtractedText == tried[Len(tried)].result.text

\* the article library parsed the page and found no text
PrimaryEmpty == ~page.article.raises /\ page.article.text = <<>>

\* the paragraphs with text inside a region
Paragraphs(region) ==
    SelectSeq(Descendants(region.kids),
              LAMBDA n : n.tag = "p" /\ GetText(<<n>>) # <<>>)

\* the article elements of the markup that hold a paragraph with text
ArticleRegions(markup) ==
    SelectSeq(Descendants(markup),
              LAMBDA n : n.tag = "article" /\ Paragraphs(n) # <<>>)

\* the article elements left once the unwanted elements are removed
SurvivingArticles(markup) ==
    SelectSeq(Descendants(Decompose(markup)), LAMBDA n : n.tag = "article")

\* C11 as stated: when the article library finds no text and the markup
\* fetched holds an article element with a paragraph of text, extract
\* returns, after both strategies, a text that holds the paragraphs of such
\* an article element.
C11_ArticleTextReturned ==
    (Extracted /\ PrimaryEmpty /\ page.fetch = "ok"
        /\ ArticleRegions(page.markup) # <<>>)
    => /\ eout.status = "returned"
       /\ Tiers = BothTiers
       /\ \E k \in DOMAIN ArticleRegions(page.markup) :
             \A j \in DOMAIN Paragraphs(ArticleRegions(page.markup)[k]) :
                Contains(GetText(<<Paragraphs(ArticleRegions(page.markup)[k])[j]>>),
                         ExtractedText)

\* C11 amended: when the article library finds no text, the markup is
\* fetched, and the first article element left after the unwanted elements
\* are removed has text in its paragraph, heading or list elements, extract
\* returns that text, newline-joined and cut to max_length, through the
\* secondary strategy.
C11_SurvivingArticleReturned ==
    (Extracted /\ PrimaryEmpty /\ page.fetch = "ok"
        /\ SurvivingArticles(page.markup) # <<>>
        /\ CollectText(Head(SurvivingArticles(page.markup))) # <<>>)
    => /\ eout.status = "returned"
       /\ Tiers = BothTiers
       /\ eout.content.text =
             Prefix(CollectText(Head(SurvivingArticles(page.markup))), max_length)

C11_Witness ==
    /\ Extracted /\ PrimaryEmpty /\ page.fetch = "ok"
    /\ ArticleRegions(page.markup) # <<>>
    /\ SurvivingArticles(page.markup) # <<>>
    /\ eout.status = "returned"
    /\ Tiers = BothTiers
    /\ eout.content.text # <<>>
    /\ eout.content.text = CollectText(Head(SurvivingArticles(page.markup)))

\* C12: extract raises the extraction error exactly when no strategy it ran
\* produced text, which takes both strategies; it never runs more than the
\* two strategies, and the secondary runs only after the primary produced
\* no text.
C12_FailsExactlyWithoutText ==
    /\ Len(tried) <= 2
    /\ Len(tried) = 2 => Tiers = BothTiers /\ NoText(tried[1].result)
    /\ Extracted =>
          /\ (eout.status = "raised") <=>
                (Len(tried) = 2 /\ \A k \in DOMAIN tried : NoText(tried[k].result))
          /\ eout.status = "raised" => eout.error = ExtractionError
          /\ eout.status = "returned" => ~NoText(tried[Len(tried)].result)

C12_Witness ==
    /\ Extracted
    /\ eout.status = "raised"
    /\ Tiers = BothTiers
    /\ page.fetch = "ok"
    /\ page.markup # <<>>

\* C13: when the article library raises, the primary strategy yields no
\* result, the secondary strategy runs next, and the failure of the article
\* library is never what extract raises.
C13_PrimaryFailureCaught ==
    (page.article.raises /\ tried # <<>>)
    => /\ tried[1] = Tried("newspaper", NoContent)
       /\ epc # "beautifulsoup" => Tiers = BothTiers
       /\ eout.status = "raised" => eout.error = ExtractionError

C13_Witness ==
    /\ Extracted
    /\ page.article.raises
    /\ Tiers = BothTiers
    /\ eout.status = "returned"

\* C14: when the text the strategies produced is longer than max_length,
\* extract returns, and the text it returns is the first max_length
\* characters of that text.
C14_TruncatedToMaximum ==
    (Extracted /\ tried # <<>> /\ Len(ExtractedText) > max_length)
    => /\ eout.status = "returned"
       /\ Len(eout.content.text) = max_length
       /\ eout.content.text = SubSeq(ExtractedText, 1, max_length)

C14_Witness ==
    /\ Extracted
    /\ tried # <<>>
    /\ Len(ExtractedText) > max_length
    /\ eout.status = "returned"
    /\ Len(eout.content.text) = max_length
    /\ ExtractedText[Len(ExtractedText)] # ExtractedText[1]

\* the secondary strategy ran on markup that was fetched
SecondaryRan == Len(tried) = 2 /\ page.fetch = "ok"

\* what the secondary strategy returned
SecondaryResult == tried[2].result

\* the region of a document by priority: its first article element, else
\* its first main element, else its first content-class container, else its
\* body; a set with that element, or empty when the document has none
RegionByPriority(soup) ==
    LET all == Descendants(soup)
        FirstOf(among) == { k \in among : \A j \in among : k <= j }
        Tagged(tag) == { k \in DOMAIN all : all[k].tag = tag }
        containers == { k \in Tagged("div") : all[k].class \cap ContentClasses # {} }
        pick == IF Tagged("article") # {} THEN FirstOf(Tagged("article"))
                ELSE IF Tagged("main") # {} THEN FirstOf(Tagged("main"))
                ELSE IF containers # {} THEN FirstOf(containers)
                ELSE FirstOf(Tagged("body"))
    IN  { all[k] : k \in pick }

\* the texts of the paragraph, heading and list-item elements inside a
\* region that have text, in document order
LinesOf(region) ==
    LET inside == Descendants(region.kids)
        lines == { k \in DOMAIN inside :
                      inside[k].tag \in TextTags /\ GetText(<<inside[k]>>) # <<>> }
        Nth(n) == CHOOSE k \in lines : Cardinality({ j \in lines : j < k }) = n - 1
    IN  [n \in 1..Cardinality(lines) |-> GetText(<<inside[Nth(n)]>>)]

C30_TitleElseFirstHeading ==
    (SecondaryRan /\ ~SecondaryResult.none) =>
        LET soup == Decompose(page.markup)
            all == Descendants(soup)
            titles == { k \in DOMAIN all : all[k].tag = "title" }
            usable == { k \in titles : GetText(<<all[k]>>) # <<>> }
            headings == { k \in DOMAIN all : all[k].tag = "h1" }
        IN  /\ usable # {} =>
                 \E k \in usable :
                    /\ \A j \in titles : k <= j
                    /\ Strip(SecondaryResult.title) = GetText(<<all[k]>>)
            /\ (usable = {} /\ headings # {}) =>
                 \E k \in headings :
                    /\ \A j \in headings : k <= j
                    /\ SecondaryResult.title = GetText(<<all[k]>>)

\* the primary strategy ran and its document has text
PrimaryFound == tried # <<>> /\ ~NoText(tried[1].result)

\* C33: when the primary strategy yields a document with text, extract never
\* runs the secondary strategy, so the page is not fetched a second time,
\* and the document it returns is the document of the primary strategy with
\* at most its text cut to max_length
C33_PrimaryResultKept ==
    PrimaryFound =>
        /\ Tiers = <<"newspaper">>
        /\ epc \in {"validate", "done"}
        /\ tried[1].result =
              Content(page.article.title, page.article.text,
                      page.article.meta_description)
        /\ Extracted =>
              /\ eout.status = "returned"
              /\ eout.content =
                    [tried[1].result EXCEPT
                        !.text = Prefix(tried[1].result.text, max_length)]

\* the article library found a text longer than max_length on a page whose
\* markup has text for the secondary strategy too: the text returned is the
\* cut text of the article library
C33_Witness ==
    /\ Extracted
    /\ PrimaryFound
    /\ Len(tried[1].result.text) > max_length
    /\ page.fetch = "ok"
    /\ ~NoText(extract_with_beautifulsoup(page.fetch, page.markup))
    /\ eout.status = "returned"
    /\ eout.content.title = page.article.title
    /\ eout.content.text = Prefix(page.article.text, max_length)

TextUnder(soup, tag) ==
    \E k \in DOMAIN Descendants(soup) :
        /\ Descendants(soup)[k].tag = tag
        /\ LinesOf(Descendants(soup)[k]) # <<>>

\* C37: the secondary strategy takes its region by presence alone and does
\* not fall through: when the region of highest priority that the markup
\* holds has no text to read, the strategy returns nothing, whatever text a
\* region of lower priority or the body holds, and extract, which runs the
\* secondary only after the primary found nothing, raises the extraction
\* error
C37_NoFallThrough ==
    SecondaryRan =>
        \A region \in RegionByPriority(Decompose(page.markup)) :
            LinesOf(region) = <<>> =>
                /\ NoText(tried[1].result)
                /\ SecondaryResult = NoContent
                /\ epc \in {"validate", "done"}
                /\ content = NoContent
                /\ Extracted =>
                      /\ eout.status = "raised"
                      /\ eout.error = ExtractionError
                      /\ eout.content = NoContent

\* the article element holds a div with text and no element the strategy
\* reads; the main element after it and the body hold a paragraph with
\* text: extract raises
C37_Witness ==
    /\ Extracted
    /\ SecondaryRan
    /\ \E region \in RegionByPriority(Decompose(page.markup)) :
          /\ region.tag = "article"
          /\ LinesOf(region) = <<>>
          /\ GetText(<<region>>) # <<>>
    /\ TextUnder(Decompose(page.markup), "main")
    /\ TextUnder(Decompose(page.markup), "body")
    /\ eout.status = "raised"
    /\ eout.error = ExtractionError

----------------------------------------------------------------------------
(* Claims about URLValidator *)

\* the HEAD request was answered with a status of [200, 400)
ProbeGood == vprobe.kind = "response" /\ vprobe.status >= 200 /\ vprobe.status < 400

\* C22: validate reports every outcome as a value and never raises: it
\* returns a pair; a format that is refused, or a probe that times out,
\* cannot connect, is redirected too often, fails otherwise or is answered
\* with a status outside [200, 400), gives (False, message) with a message
\* that is not empty, and (True, "") is returned only when the format is
\* valid and the status of the probe is in [200, 400)
C22_ValidateReturnsValue ==
    vpc = "done" =>
        /\ vout.status = "returned"
        /\ vout.ok \in BOOLEAN
        /\ vout.ok <=> (validate_url_format(vurl).ok /\ ProbeGood)
        /\ vout.ok => vout.error = ""
        /\ ~vout.ok => vout.error # ""

\* a url of a valid format whose HEAD request was answered with status 400:
\* validate returned False and a message
C22_Witness ==
    /\ vpc = "done"
    /\ validate_url_format(vurl).ok
    /\ vprobe = ProbeAnswers(400)
    /\ vout = Pair(Checked(FALSE, "URL not accessible"))

\* the messages of validate_url_format, lines 39-52
FormatErrors ==
    { "URL must be a non-empty string",
      "URL must start with http:// or https://",
      "Invalid URL: missing domain",
      "Local URLs are not supported" }

\* C36: validate checks the format before the accessibility: for a URL whose
\* format is refused (scheme, missing host, local host) the HEAD request is
\* never sent, and the error returned is the error of the format check
C36_FormatBeforeProbe ==
    /\ vpc = "probe" => validate_url_format(vurl).ok
    /\ (vpc \in {"format", "probe", "done"} /\ ~validate_url_format(vurl).ok) =>
          /\ vpc # "probe"
          /\ vpc = "done" =>
                /\ vout = Pair(validate_url_format(vurl))
                /\ ~vout.ok
                /\ vout.error \in FormatErrors
    /\ (vpc = "done" /\ validate_url_format(vurl).ok) =>
          vout = Pair(check_accessibility(vprobe))

\* a local URL whose host would have answered the HEAD request with 200:
\* validate returns the error of the format check
C36_Witness ==
    /\ vpc = "done"
    /\ vprobe = ProbeAnswers(StatusOk)
    /\ check_accessibility(vprobe).ok
    /\ ~validate_url_format(vurl).ok
    /\ vout = Pair(Checked(FALSE, "Local URLs are not supported"))

----------------------------------------------------------------------------
(* Claims about generate_blog *)

\* the handler has answered
Answered == rpc = "done"

\* the first n stages, in order
Stages(n) == Prefix(StageOrder, n)

\* the run was ended in its n-th stage: no later stage was entered, and the
\* answer, once given, is the error with this status and label
AbortedIn(n, status_code, label) ==
    /\ trace = Stages(n)
    /\ Answered =>
          /\ answer.status = "raised"
          /\ answer.status_code = status_code
          /\ answer.detail # <<>>
          /\ answer.detail[1] = label

\* C15: a failed validation, a failed extraction, a cleaning that leaves no
\* text and a failed generation each end the run in that stage: no later
\* stage is entered (no extraction after a failed validation, no provider
\* call after a failed extraction or cleaning, no image request after a
\* failed generation) and the error answered carries the label of that
\* stage, not the label of an internal error.
C15_CriticalFailureAborts ==
    /\ (trace # <<>> /\ ~run.checked.ok) =>
          /\ Answered
          /\ AbortedIn(1, 400, ValidationLabel)
          /\ epc = "idle" /\ pc = "idle"
    /\ (rpc # "idle" /\ eout.status = "raised") =>
          /\ AbortedIn(2, 400, ExtractionLabel)
          /\ pc = "idle"
    /\ (Len(trace) >= 3 /\ run.cleaned_text = <<>>) =>
          /\ Answered
          /\ AbortedIn(3, 400, CleaningLabel)
          /\ pc = "idle"
    /\ (rpc # "idle" /\ outcome.status = "raised") =>
          /\ AbortedIn(7, 500, GenerationLabel)
          /\ isent = <<>>
          /\ run.blog_data = NoneVal

\* the repair request failed on its last attempt and the run was answered
C15_Witness ==
    /\ Answered
    /\ outcome.status = "raised"
    /\ stage = "repair"
    /\ outcome.error.type = "Timeout"
    /\ answer.status_code = 500
    /\ answer.detail[1] = GenerationLabel
    /\ trace = Stages(7)

\* a step of the image stage of this run failed
ImageFailed(step) == \E k \in DOMAIN run.image_log : run.image_log[k] = step

\* the answer is what scoring and the response model make of the article,
\* whatever happened to the images
AnsweredOnArticle ==
    /\ trace = StageOrder
    /\ answer.status = "returned" <=>
          (ProcessReturns(run.blog_data) /\ BlogContentValid(run.blog_data))
    /\ answer.status # "returned" =>
          (answer.status = "raised" /\ answer.detail[1] = InternalLabel)

\* C16 as stated: when any step of the image stage fails, the run completes
\* as it would without the images, and the response has no featured image
\* and an empty list of additional images
C16_Original ==
    (Answered /\ run.image_log # <<>>) =>
        /\ AnsweredOnArticle
        /\ answer.featured_image = NoImage
        /\ answer.additional_images = <<>>

\* C16, amended: a failure of a step of the image stage never ends the run,
\* which is answered as scoring and the response model decide; the response
\* has no image from the step that failed: no featured image after a failed
\* featured lookup, an empty additional list after a failed additional lookup
\* or a failed additional record, and neither after a failed featured record
C16_ImageFailureNonCritical ==
    (Answered /\ run.image_log # <<>>) =>
        /\ AnsweredOnArticle
        /\ (ImageFailed("featured lookup") \/ ImageFailed("featured record")) =>
              answer.featured_image = NoImage
        /\ (ImageFailed("additional lookup") \/ ImageFailed("additional record")
              \/ ImageFailed("featured record")) =>
              answer.additional_images = <<>>

\* a record of the additional images could not be built: the response keeps
\* the featured image and has no additional image
C16_Witness ==
    /\ Answered
    /\ answer.status = "returned"
    /\ run.image_log = <<"additional record">>
    /\ answer.featured_image # NoImage
    /\ answer.additional_images = <<>>

\* the article has every field of the schema
Complete(blog) ==
    /\ IsObject(blog)
    /\ \A key \in SchemaFields : HasKey(blog, key)

\* C17: a run ends in a response whose article has every field of the schema
\* (title, meta_description, introduction, sections, conclusion, cta, tags)
\* or in a failure without an article; an output of the provider that parses
\* but is no object, or lacks a field, never ends in a response
C17_NoPartialArticle ==
    Answered =>
        /\ answer.status = "returned" => Complete(answer.blog)
        /\ answer.status # "returned" => answer.blog = NoneVal
        /\ (run.blog_data # NoneVal /\ ~Complete(run.blog_data)) =>
              /\ answer.status = "raised"
              /\ answer.status_code = 500

\* the provider's output parsed to an article without tags, which scoring
\* accepts: the run ends in an error
C17_Witness ==
    /\ Answered
    /\ pc = "returned"
    /\ IsObject(run.blog_data)
    /\ HasKey(run.blog_data, KeyTitle)
    /\ ~HasKey(run.blog_data, KeyTags)
    /\ ProcessReturns(run.blog_data)
    /\ trace = StageOrder
    /\ answer.status = "raised"
    /\ answer.detail = <<InternalLabel, "ValidationError">>
    /\ answer.blog = NoneVal

\* what the request must be: an http or https url with a host that is not
\* local, a tone of the list, a whole word count within the limits
Acceptable(raw) ==
    /\ UrlScheme(raw.url) \in {Http, Https}
    /\ Hostname(UrlNetloc(raw.url)) # <<>>
    /\ Hostname(UrlNetloc(raw.url)) \notin excluded_domains
    /\ ToneOf(raw) \in Tones
    /\ raw.word_count # <<>> => IsInteger(raw.word_count)
    /\ WordCountOf(raw) \in MinWordCount..MaxWordCount

\* the requests of the model that are acceptable
AcceptableRequests == {raw \in RawRequests : Acceptable(raw)}

\* the answer to a request that is refused
Refused ==
    \/ answer.status = "rejected"
    \/ /\ answer.status = "raised"
       /\ answer.status_code = 400
       /\ answer.detail[1] = ValidationLabel

\* C18: a run goes past validation only if the url has scheme http or https
\* and a host that is not empty and not localhost, 127.0.0.1 or 0.0.0.0, the
\* tone is one of the four and word_count is an integer in [300, 2000]; any
\* other request is refused at once: no page is asked for, no extraction and
\* no call of the provider starts, and nothing is tried again
C18_OnlyValidInputProceeds ==
    /\ Len(trace) >= 2 => body \in AcceptableRequests
    /\ (rpc # "idle" /\ body \notin AcceptableRequests) =>
          /\ Len(trace) <= 1
          /\ run.probes = 0
          /\ epc = "idle"
          /\ pc = "idle"
          /\ sent = <<>>
          /\ isent = <<>>
          /\ Answered => Refused

\* a request for a page of localhost was refused by the validation, without
\* a HEAD request
C18_Witness ==
    /\ Answered
    /\ trace = <<"validation">>
    /\ Hostname(UrlNetloc(body.url)) \in excluded_domains
    /\ RequestValid(body)
    /\ run.probes = 0
    /\ answer = HTTPException(400, <<ValidationLabel, "Local URLs are not supported">>)

\* the documents the pages of the model give
Documents ==
    { d \in { extract_with_newspaper(p.article) : p \in PipelinePages }
             \cup { extract_with_beautifulsoup(p.fetch, p.markup) :
                        p \in PipelinePages } : ~NoText(d) }

\* the requests the handler can be entered with
AcceptedRequests == { BlogGenerationRequest(raw) : raw \in AcceptableRequests }

\* StagesOf, tabulated
StagesTable ==
    [content_data \in Documents, found \in KeywordFinds,
     req \in AcceptedRequests |-> StagesOf(content_data, found, req)]

\* the outputs of the stages of this run, and the prompt, are those made of
\* the document this run extracted
PromptOfRun(sent_prompt) ==
    /\ eout.content \in Documents
    /\ request \in AcceptedRequests
    /\ \E found \in KeywordFinds :
       \E stages \in {StagesTable[eout.content, found, request]} :
          /\ run.cleaned_text = stages.cleaned_text
          /\ run.keyword_data = stages.keyword_data
          /\ run.analysis_data = stages.analysis_data
          /\ sent_prompt = stages.prompt

KeysNamed(text) ==
    LET first == { k \in 1..(Len(text) - 1) :
                      /\ text[k + 1] = KeyEnd
                      /\ \A j \in 1..(k - 1) :
                            text[j + 1] = KeyEnd => text[j] # text[k] }
        Nth(n) == CHOOSE k \in first : Cardinality({ j \in first : j < k }) = n - 1
    IN  [n \in 1..Cardinality(first) |-> text[Nth(n)]]

\* the fields of the fixed output schema; heading and content are the
\* fields of an element of sections
FixedSchema ==
    <<"title", "meta_description", "introduction", "sections", "heading",
      "content", "conclusion", "cta", "tags">>

\* C28: the repair request is the fixed instructions and schema followed by
\* the output of the provider as it was returned, not the text the parser
\* worked on, and it is what every call of the repair stage sends; the
\* schema it names has the fields of the schema of the initial prompt:
\* title, meta_description, introduction, sections of heading and content,
\* conclusion, cta, tags
C28_RepairEmbedsRawOutput ==
    stage = "repair" =>
        /\ ~Parse(response).ok
        /\ prompt = RepairHeader \o response
        /\ SubSeq(prompt, 1, Len(RepairHeader)) = RepairHeader
        /\ sent # <<>>
        /\ sent[1] = run.prompt
        /\ \A k \in DOMAIN sent : sent[k] \in {run.prompt, prompt}
        /\ pc \in {"parse", "returned"} => sent[Len(sent)] = prompt
        /\ (pc = "attempt" /\ attempt = 1) =>
              /\ KeysNamed(prompt) = FixedSchema
              /\ KeysNamed(run.prompt) = FixedSchema

\* a repair request was sent for an output that the parser trims before it
\* reads it, and the request carries the untrimmed output
C28_Witness ==
    /\ stage = "repair"
    /\ pc = "returned"
    /\ response = <<" ", "n", "o", "\n">>
    /\ FenceStripped(response) = <<"n", "o">>
    /\ sent[Len(sent)] = RepairHeader \o <<" ", "n", "o", "\n">>
    /\ sent[1] = run.prompt

\* the extractor has been entered: it is at work or has tried a strategy
ExtractorEntered == epc # "idle" \/ tried # <<>>

\* the provider has been invoked, or generate is at work
ProviderInvoked ==
    invocations > 0 \/ physical > 0 \/ sent # <<>> \/ pc # "idle"

\* C35: in every run the provider is invoked only after the validation of
\* the URL, the extraction and the cleaning have succeeded and the cleaned
\* text is not empty, and the extractor fetches the page only after the
\* validation has succeeded; a run that fails in an earlier stage, or a
\* request that is rejected, makes no provider invocation
C35_ProviderAfterCriticalStages ==
    /\ ExtractorEntered =>
          /\ run.checked.ok
          /\ Len(trace) >= 2
          /\ Prefix(trace, 2) = Stages(2)
    /\ ProviderInvoked =>
          /\ run.checked.ok
          /\ epc = "done"
          /\ eout.status = "returned"
          /\ run.content_data = eout.content
          /\ run.cleaned_text # <<>>
          /\ Len(trace) >= 7
          /\ Prefix(trace, 7) = Stages(7)
    /\ Len(trace) < 7 => ~ProviderInvoked
    /\ (Answered /\ answer.status = "raised" /\ answer.status_code = 400) =>
          /\ ~ProviderInvoked
          /\ Len(trace) \in 1..3
          /\ ~run.checked.ok => ~ExtractorEntered
    /\ (Answered /\ answer = Unprocessable) =>
          (~ProviderInvoked /\ ~ExtractorEntered)

\* the page was fetched after a successful validation, its text was
\* extracted, nothing was left of it after the cleaning, and the run ended
\* without an invocation of the provider
C35_Witness ==
    /\ Answered
    /\ trace = Stages(3)
    /\ run.checked.ok
    /\ eout.status = "returned"
    /\ eout.content.text # <<>>
    /\ run.cleaned_text = <<>>
    /\ answer.detail = <<CleaningLabel>>
    /\ invocations = 0
    /\ physical = 0
    /\ sent = <<>>

----------------------------------------------------------------------------
(* Claims about concurrent requests *)

\* the stages a request takes next when it is alone in a process whose
\* components are as constructed: one for each response its call can get
Alone(f) ==
    CASE f.at = "validate" -> { AfterValidation(f, probe) : probe \in PairProbes }
      [] f.at = "extract" ->
            { AfterExtraction(f, p, max_content_length) : p \in PairPages }
      [] f.at = "clean" -> { AfterCleaning(f) }
      [] f.at = "analyse" -> { AfterAnalysis(f, found) : found \in PairFinds }
      [] f.at = "generate" ->
            { AfterGeneration(f, replies) : replies \in PairReplySeqs }
      [] f.at = "images" ->
            { AfterImages(f, services, PairKey) :
                services \in { s \in PairServiceSeqs : Searched(f, s, PairKey) } }
      [] f.at = "respond" -> { AfterScoring(f) }
      [] f.at = "done" -> {}

RECURSIVE AloneFrom(_)
AloneFrom(frames) ==
    LET after == frames \cup UNION { Alone(f) : f \in frames }
    IN  IF after = frames THEN frames ELSE AloneFrom(after)

\* what a request alone can be at, with the responses that led there: one
\* for each request and sequence of responses
SoloRuns == AloneFrom({ Enter(req) : req \in PairRequests })

\* a request and the responses received determine the local variables and
\* the answer
SoloDetermined ==
    \A f \in SoloRuns : \A g \in SoloRuns :
        (f.req = g.req /\ f.received = g.received) => f = g

----------------------------------------------------------------------------
(* Claims about ImageFetcher *)

\* C20: a call of fetch_images or get_featured_image always returns; without
\* an access key it sends no request, and without a key or with a search
\* that finds nothing fetch_images returns the empty list and
\* get_featured_image returns no image.
C20_EmptyResultIsNormal ==
    ipc = "done" =>
       /\ iout.status = "returned"
       /\ unsplash_access_key = "" => isent = <<>>
       /\ (unsplash_access_key = "" \/ iout.service = ServiceFinds(<<>>))
            => iout.images = <<>> /\ iout.image = NoImage

C20_Witness ==
    /\ ipc = "done"
    /\ icall.fn = "get_featured_image"
    /\ unsplash_access_key # ""
    /\ iout.service = ServiceFinds(<<>>)
    /\ Len(isent) = 1
    /\ iout.image = NoImage

=============================================================================
